---- MODULE Spec2Model ----
(***************************************************************************)
(* Triggered: the enemy controller (Enemy.update and its helpers), the     *)
(* grid path finder (PathFinder, a_star_search, reconstruct_path) and the  *)
(* level loop that drives them, modelled from src/triggered.py.            *)
(*                                                                         *)
(* World points are pairs <<x, y>> of world units.  The map is the level's *)
(* tile data: a sequence of rows, each a sequence of one-character tags,   *)
(* "#" a wall and " " a floor tile.                                        *)
(*                                                                         *)
(* The specifications share the variables: SpecPath follows one           *)
(* calculate_path call on a family of grids, SpecSearch one a_star_search  *)
(* call to its end, SpecFinder and SpecDamage one call of a function by    *)
(* itself, Spec follows Level.update frame by frame on a set of levels,    *)
(* with the key events in between, SpecGame follows the game through its   *)
(* menus, and SpecEditor follows the level editor's agent and waypoint     *)
(* tools click by click.                                                   *)
(***************************************************************************)
EXTENDS Integers, Sequences, FiniteSets, TLC

VARIABLES
    map,        \* Level.data.map / PathFinder.data: rows of tile tags
    start,      \* calculate_path: p1
    goal,       \* calculate_path: p2
    search,     \* a_star_search: frontier, came_from, cost_so_far
    ppc,        \* position of the calculate_path call
    result,     \* what calculate_path returned (or the error it raised)
    level,      \* Level.data: player, enemies and waypoints of the level file
    player,     \* the Player of the level
    enemies,    \* the Enemy objects of the level, by their index in Level.data.enemies
    agents,     \* Level.agents
    keys,       \* the key state Player.update reads: the set of keys held
    dt,         \* the frame time handed to on_update, in 1/100 s
    status,     \* Level.status
    crash,      \* an exception has left Level.update: the program has ended
    tick,       \* number of Level.update calls so far
    nkeys,      \* number of key events so far
    horizon,    \* number of frames followed
    obs,        \* per enemy, the locals of its last update call
    mouse,      \* the world point under the mouse cursor
    nclicks,    \* number of mouse presses so far
    call,       \* a call of one function by itself: its name and arguments
    ret,        \* what that call returned
    state,      \* Game.state
    paused,     \* the level's agents as they were when the game was paused
    nmenu,      \* number of menu events and of frames spent in a menu so far
    level_data, \* the editor's level_data: player, enemies, waypoints, _active_enemy
    authored    \* per enemy of level_data, the waypoints the author gave it

pathVars == <<map, start, goal, search, ppc, result>>

levelVars ==
    <<level, player, enemies, agents, keys, dt, status, crash, tick, nkeys, horizon, obs,
      mouse, nclicks>>

callVars == <<call, ret>>

gameVars == <<state, paused, nmenu>>

editorVars == <<level_data, authored>>

\* all but the game's state
otherVars == <<pathVars, levelVars, callVars, editorVars>>

vars == <<map, start, goal, search, ppc, result,
          level, player, enemies, agents, keys, dt, status, crash, tick, nkeys, horizon,
          obs, mouse, nclicks, call, ret, state, paused, nmenu, level_data, authored>>

----------------------------------------------------------------------------
(* Bounds of the path finder's inputs *)

GridW == 5
GridH == 3

(* Program constants *)

node_size == 100

None == <<>>

----------------------------------------------------------------------------
(* Small helpers *)

Abs(n) == IF n < 0 THEN -n ELSE n

Range(s) == {s[i] : i \in 1..Len(s)}

Last(s) == s[Len(s)]

Reverse(s) == [i \in 1..Len(s) |-> s[Len(s) + 1 - i]]

\* Python's comparison of two (x, y) tuples
PointLess(a, b) == a[1] < b[1] \/ (a[1] = b[1] /\ a[2] < b[2])

----------------------------------------------------------------------------
(* PathFinder *)

distance_sqr(p1, p2) ==
    LET dx == p2[1] - p1[1]
        dy == p2[2] - p1[2]
    IN  dx * dx + dy * dy

heuristic(a, b) == Abs(a[1] - b[1]) + Abs(a[2] - b[2])

cost(a, b) == 1

\* the centre of the tile in column x of row y (both from 0)
CellPoint(x, y) == <<node_size \div 2 + x * node_size, node_size \div 2 + y * node_size>>

RECURSIVE WalkableFrom(_, _)
WalkableFrom(data, k) ==
    \* the comprehension of PathFinder.walkable from the k-th tile on, row-major
    IF Len(data) = 0 \/ k >= Len(data) * Len(data[1]) THEN <<>>
    ELSE LET w == Len(data[1])
             x == k % w
             y == k \div w
         IN  (IF data[y + 1][x + 1] /= "#" THEN <<CellPoint(x, y)>> ELSE <<>>)
                 \o WalkableFrom(data, k + 1)

walkable(data) == WalkableFrom(data, 0)

directions == <<<<0, 1>>, <<0, -1>>, <<1, 0>>, <<-1, 0>>>>

\* neighbours without the test "n in self.walkable()"
neighbours_Unfiltered(data, p) ==
    [i \in 1..4 |->
        <<p[1] + directions[i][1] * node_size, p[2] + directions[i][2] * node_size>>]

\* neighbours with the test "n in self.walkable()" replaced by a test that n is a
\* tile of the map
neighbours_ThroughWalls(data, p) ==
    LET neigh_positions == [i \in 1..4 |->
            <<p[1] + directions[i][1] * node_size, p[2] + directions[i][2] * node_size>>]
    IN  SelectSeq(neigh_positions,
                  LAMBDA n : /\ n[1] > 0 /\ n[1] < Len(data[1]) * node_size
                             /\ n[2] > 0 /\ n[2] < Len(data) * node_size)

neighbours(data, p) ==
    LET neigh_positions == [i \in 1..4 |->
            <<p[1] + directions[i][1] * node_size, p[2] + directions[i][2] * node_size>>]
        w == Range(walkable(data))
    IN  SelectSeq(neigh_positions, LAMBDA n : n \in w)

RECURSIVE MinFrom(_, _, _, _)
\* min() with the key distance_sqr(p, .), from the k-th point of w on: best is the
\* position of the least seen so far, replaced only by a strictly smaller one
MinFrom(w, p, k, best) ==
    IF k > Len(w) THEN w[best]
    ELSE MinFrom(w, p, k + 1,
                 IF distance_sqr(p, w[k]) < distance_sqr(p, w[best]) THEN k ELSE best)

\* min(): the first of the points of w nearest to p
FirstNearest(w, p) == MinFrom(w, p, 2, 1)

\* closest_point scanning the walkable points from the last to the first
closest_point_Backwards(data, p) == FirstNearest(Reverse(walkable(data)), p)

closest_point(data, p) == FirstNearest(walkable(data), p)

----------------------------------------------------------------------------
(* PriorityQueue: heapq over (priority, item) tuples.  Every entry pushed   *)
(* by a_star_search differs from the entries in the heap (an item is pushed *)
(* again only with a smaller cost), so the heap is the set of its entries   *)
(* and get() pops the least (priority, item).                               *)

EntryLess(a, b) ==
    a.priority < b.priority \/ (a.priority = b.priority /\ PointLess(a.item, b.item))

PQPut(elements, item, priority) ==
    elements \cup {[priority |-> priority, item |-> item]}

PQTop(elements) ==
    CHOOSE e \in elements : \A o \in elements : o = e \/ EntryLess(e, o)

----------------------------------------------------------------------------
(* a_star_search *)

AStarInit(p1) ==
    [frontier    |-> PQPut({}, p1, 0),
     came_from   |-> (p1 :> None),
     cost_so_far |-> (p1 :> 0),
     done        |-> FALSE]

\* one pass of the body of "for next in graph.neighbours(current)"
Relax(st, current, next, p2) ==
    LET new_cost == st.cost_so_far[current] + cost(current, next)
    IN  IF next \notin DOMAIN st.cost_so_far \/ new_cost < st.cost_so_far[next]
        THEN [st EXCEPT
                !.cost_so_far = (next :> new_cost) @@ st.cost_so_far,
                !.frontier    = PQPut(st.frontier, next, new_cost + heuristic(p2, next)),
                !.came_from   = (next :> current) @@ st.came_from]
        ELSE st

RECURSIVE RelaxAll(_, _, _, _)
RelaxAll(st, current, ns, p2) ==
    IF ns = <<>> THEN st
    ELSE RelaxAll(Relax(st, current, Head(ns), p2), current, Tail(ns), p2)

\* one pass of the body of "while not frontier.empty()"
AStarIter(data, st, p2) ==
    IF st.frontier = {} THEN [st EXCEPT !.done = TRUE]
    ELSE LET top     == PQTop(st.frontier)
             current == top.item
             popped  == [st EXCEPT !.frontier = st.frontier \ {top}]
         IN  IF current = p2 THEN [popped EXCEPT !.done = TRUE]
             ELSE RelaxAll(popped, current, neighbours(data, current), p2)

RECURSIVE AStarRun(_, _, _)
AStarRun(data, st, p2) ==
    IF st.done THEN st ELSE AStarRun(data, AStarIter(data, st, p2), p2)

a_star_search(data, p1, p2) == AStarRun(data, AStarInit(p1), p2)

----------------------------------------------------------------------------
(* reconstruct_path: the value returned, or the KeyError raised by          *)
(* came_from[current] when current has no entry.                            *)

KeyError == [ok |-> FALSE, path |-> <<>>]

RECURSIVE WalkBack(_, _, _)
WalkBack(came_from, p1, path) ==
    \* the while loop, path being the list built so far, its last point current
    LET current == Last(path)
    IN  IF current = p1 THEN [ok |-> TRUE, path |-> path]
        ELSE IF current \notin DOMAIN came_from THEN KeyError
        ELSE WalkBack(came_from, p1, Append(path, came_from[current]))

\* "path.append(start); path.reverse(); return path" after the loop
Closed(walked, p1) ==
    IF walked.ok THEN [ok |-> TRUE, path |-> Reverse(Append(walked.path, p1))]
    ELSE KeyError

reconstruct_path(came_from, p1, p2) == Closed(WalkBack(came_from, p1, <<p2>>), p1)

calculate_path(data, p1, p2) ==
    reconstruct_path(a_star_search(data, p1, p2).came_from, p1, p2)

RECURSIVE PatrolFrom(_, _, _, _)
RECURSIVE PatrolExtend(_, _, _, _, _)

\* "path = self.calculate_path(f, s)[1:]; result.extend(path)" for the path
\* calculated, found being the list "result" so far
PatrolExtend(data, circular_points, i, found, path) ==
    IF ~path.ok THEN KeyError
    ELSE PatrolFrom(data, circular_points, i + 1, found \o Tail(path.path))

\* "for i in range(len(circular_points)-2)" from i on, and the return
PatrolFrom(data, circular_points, i, found) ==
    IF i >= Len(circular_points) - 2 THEN [ok |-> TRUE, path |-> found]
    ELSE PatrolExtend(data, circular_points, i, found,
                      calculate_path(data, circular_points[i + 1], circular_points[i + 2]))

calc_patrol_path(data, points) == PatrolFrom(data, Append(points, points[1]), 0, <<>>)

----------------------------------------------------------------------------
(* The maps the path finder is run on: GridW x GridH tiles, with no wall,   *)
(* one wall tile, a wall across a whole column, or such a wall with a door. *)

Cells == (0..(GridW - 1)) \X (0..(GridH - 1))

Column(x) == {c \in Cells : c[1] = x}

WallSets ==
    {{}} \cup {{c} : c \in Cells}
         \cup {Column(x) : x \in 0..(GridW - 1)}
         \cup {Column(c[1]) \ {c} : c \in Cells}

Grid(walls) ==
    [r \in 1..GridH |-> [c \in 1..GridW |->
        IF <<c - 1, r - 1>> \in walls THEN "#" ELSE " "]]

Grids == {Grid(ws) : ws \in WallSets}

----------------------------------------------------------------------------
(* Specification of one calculate_path call *)

InitPath ==
    /\ map \in Grids
    /\ start \in Range(walkable(map))
    /\ goal \in Range(walkable(map))
    /\ search = AStarInit(start)
    /\ ppc = "search"
    /\ result = None
    /\ level = None /\ player = None /\ enemies = None /\ agents = None
    /\ keys = None /\ dt = 0 /\ status = None /\ crash = FALSE
    /\ tick = 0 /\ nkeys = 0 /\ horizon = 0
    /\ obs = None
    /\ mouse = None /\ nclicks = 0
    /\ state = None /\ paused = None /\ nmenu = 0
    /\ level_data = None /\ authored = None
    /\ call = None /\ ret = None

\* a_star_search: one iteration of its loop
AStarStep ==
    /\ ppc = "search"
    /\ ~search.done
    /\ search' = AStarIter(map, search, goal)
    /\ UNCHANGED <<map, start, goal, ppc, result>>
    /\ UNCHANGED levelVars
    /\ UNCHANGED <<callVars, gameVars, editorVars>>

\* calculate_path: the search is over, reconstruct_path runs
Reconstruct ==
    /\ ppc = "search"
    /\ search.done
    /\ result' = reconstruct_path(search.came_from, start, goal)
    /\ ppc' = "done"
    /\ UNCHANGED <<map, start, goal, search>>
    /\ UNCHANGED levelVars
    /\ UNCHANGED <<callVars, gameVars, editorVars>>

NextPath == AStarStep \/ Reconstruct

SpecPath == InitPath /\ [][NextPath]_vars

----------------------------------------------------------------------------
(* What the claims about calculate_path compare its result with: the        *)
(* 4-connected walkable grid and breadth-first distances on it.             *)

Adjacent4(a, b) ==
    \/ a[1] = b[1] /\ Abs(a[2] - b[2]) = node_size
    \/ a[2] = b[2] /\ Abs(a[1] - b[1]) = node_size

RECURSIVE BfsFrom(_, _, _, _, _)
BfsFrom(data, layer, seen, d, g) ==
    \* the number of steps from the points at distance d (layer) to g, -1 if none
    IF g \in layer THEN d
    ELSE IF layer = {} THEN -1
    ELSE LET nxt == {n \in Range(walkable(data)) :
                        n \notin seen /\ \E c \in layer : Adjacent4(c, n)}
         IN  BfsFrom(data, nxt, seen \cup nxt, d + 1, g)

BfsDist(data, p, g) == BfsFrom(data, {p}, {p}, 0, g)

Joined(data, p, g) == BfsDist(data, p, g) >= 0

\* the moves of a path: its consecutive pairs that change position
Moves(path) == Cardinality({i \in 1..(Len(path) - 1) : path[i] /= path[i + 1]})

Returned == ppc = "done"

\* C4: for walkable p and g joined by a walkable route, calculate_path(p, g)
\* starts at p, ends at g and every two consecutive points are 4-adjacent.
C4_PathIsAdjacent ==
    (Returned /\ Joined(map, start, goal)) =>
        /\ result.ok
        /\ result.path[1] = start
        /\ Last(result.path) = goal
        /\ \A i \in 1..(Len(result.path) - 1) :
              Adjacent4(result.path[i], result.path[i + 1])

\* C5: for walkable p and g joined by a walkable route, the path returned by
\* calculate_path(p, g) makes as many steps as the breadth-first shortest
\* route (a repeated point is not counted as a step).
C5_PathIsShortest ==
    (Returned /\ Joined(map, start, goal)) =>
        /\ result.ok
        /\ Moves(result.path) = BfsDist(map, start, goal)

\* C6: when no walkable route joins start and goal, calculate_path does not
\* fail inside path reconstruction (it reports the goal unreachable instead).
C6_UnreachableIsReported ==
    (Returned /\ ~Joined(map, start, goal)) => result /= KeyError

\* C10: calculate_path(p, p) is exactly the one-element sequence [p].
C10_PathToSelf ==
    (Returned /\ start = goal) => result = [ok |-> TRUE, path |-> <<start>>]

----------------------------------------------------------------------------
(* Specification of one a_star_search call that is let run, from a corner   *)
(* or from the middle of the grid: the goal is any tile of the grid, a wall *)
(* tile too, or a point next to the grid; every iteration of the loop that  *)
(* can be made is made in the end.  The grids have no wall, a wall across   *)
(* the second column, or that wall with a door.                             *)

InitSearch ==
    /\ map \in {Grid(ws) : ws \in {{}, Column(1), Column(1) \ {<<1, 1>>}}}
    /\ start \in {CellPoint(0, 0), CellPoint(2, 1)}
    \* the centres of all tiles, and those of the column right of the map
    /\ goal \in {CellPoint(x, y) : x \in 0..GridW, y \in 0..(GridH - 1)}
    /\ search = AStarInit(start)
    /\ ppc = "search"
    /\ result = None
    /\ level = None /\ player = None /\ enemies = None /\ agents = None
    /\ keys = None /\ dt = 0 /\ status = None /\ crash = FALSE
    /\ tick = 0 /\ nkeys = 0 /\ horizon = 0
    /\ obs = None
    /\ mouse = None /\ nclicks = 0
    /\ state = None /\ paused = None /\ nmenu = 0
    /\ level_data = None /\ authored = None
    /\ call = None /\ ret = None

SpecSearch == InitSearch /\ [][NextPath]_vars /\ WF_vars(NextPath)

\* the goal is a wall tile or outside the map
GoalIsNoFloor == goal \notin Range(walkable(map))

\* C30: a_star_search ends for every start and goal, when the goal cannot be
\* reached or is a wall tile too, and came_from has an entry only for tiles
\* that a 4-connected walkable route joins to the start.
C30_SearchEndsInItsComponent ==
    /\ <>(ppc = "search" /\ search.done)
    /\ [](ppc = "search" => \A c \in DOMAIN search.came_from : Joined(map, start, c))

\* the search ended with the frontier empty, for a goal that is no floor tile and
\* for a floor tile no route leads to, every tile joined to the start recorded
C30_Witness ==
    /\ ppc = "search" /\ search.done /\ search.frontier = {}
    /\ goal \notin DOMAIN search.came_from
    /\ Cardinality(DOMAIN search.came_from) > 1
    /\ \A c \in Range(walkable(map)) : Joined(map, start, c) => c \in DOMAIN search.came_from

C30_WitnessWall == C30_Witness /\ GoalIsNoFloor

C30_WitnessCutOff == C30_Witness /\ ~GoalIsNoFloor

----------------------------------------------------------------------------
(* Specification of one call of a PathFinder method by itself: neighbours,  *)
(* closest_point or calc_patrol_path, on the same family of grids.          *)

MaxWaypoints == 3

\* the points asked of neighbours and closest_point: every half cell, from one
\* cell outside the grid on each side
QueryPoints ==
    {<<(node_size \div 2) * i, (node_size \div 2) * j>> :
        i \in (-2)..(2 * GridW + 2), j \in (-2)..(2 * GridH + 2)}

\* the corner cells of the grid that are floor
Corners(data) ==
    {c \in {CellPoint(x, y) : x \in {0, GridW - 1}, y \in {0, GridH - 1}} :
        c \in Range(walkable(data))}

\* the waypoint lists asked of calc_patrol_path: two to MaxWaypoints different
\* corners, each joined to each by a walkable route
WaypointLists(data) ==
    {s \in UNION {[1..n -> Corners(data)] : n \in 2..MaxWaypoints} :
        \A i, j \in 1..Len(s) : i /= j => (s[i] /= s[j] /\ Joined(data, s[i], s[j]))}

FinderCalls(data) ==
    {[fn |-> f, p |-> q, points |-> <<>>] :
        f \in {"neighbours", "closest_point"}, q \in QueryPoints}
    \cup {[fn |-> "calc_patrol_path", p |-> None, points |-> s] : s \in WaypointLists(data)}

InitFinder ==
    /\ map \in Grids
    /\ call \in FinderCalls(map)
    /\ ret = None
    /\ start = None /\ goal = None /\ search = None /\ ppc = "idle" /\ result = None
    /\ level = None /\ player = None /\ enemies = None /\ agents = None
    /\ keys = None /\ dt = 0 /\ status = None /\ crash = FALSE
    /\ tick = 0 /\ nkeys = 0 /\ horizon = 0
    /\ obs = None
    /\ mouse = None /\ nclicks = 0
    /\ state = None /\ paused = None /\ nmenu = 0
    /\ level_data = None /\ authored = None

\* PathFinder.neighbours(p)
CallNeighbours ==
    /\ ret = None
    /\ call.fn = "neighbours"
    /\ ret' = [value |-> neighbours(map, call.p)]
    /\ UNCHANGED <<call, pathVars, levelVars, gameVars, editorVars>>

\* PathFinder.closest_point(p)
CallClosestPoint ==
    /\ ret = None
    /\ call.fn = "closest_point"
    /\ ret' = [value |-> closest_point(map, call.p)]
    /\ UNCHANGED <<call, pathVars, levelVars, gameVars, editorVars>>

\* PathFinder.calc_patrol_path(points)
CallPatrolPath ==
    /\ ret = None
    /\ call.fn = "calc_patrol_path"
    /\ ret' = [value |-> calc_patrol_path(map, call.points)]
    /\ UNCHANGED <<call, pathVars, levelVars, gameVars, editorVars>>

NextFinder == CallNeighbours \/ CallClosestPoint \/ CallPatrolPath

SpecFinder == InitFinder /\ [][NextFinder]_vars

----------------------------------------------------------------------------
(* Claims about the PathFinder methods *)

HasReturned(f) == call.fn = f /\ ret /= None

RECURSIVE VisitsInOrder(_, _)
\* the points of pts occur in path, in their order
VisitsInOrder(path, pts) ==
    IF pts = <<>> THEN TRUE
    ELSE IF path = <<>> THEN FALSE
    ELSE IF Head(path) = Head(pts) THEN VisitsInOrder(Tail(path), Tail(pts))
    ELSE VisitsInOrder(Tail(path), pts)

\* n is the centre of a floor tile of the grid
IsFloorCentre(data, n) ==
    \E x \in 0..(Len(data[1]) - 1), y \in 0..(Len(data) - 1) :
        n = CellPoint(x, y) /\ data[y + 1][x + 1] /= "#"

\* a comes before b in the row-major order of the tiles
RowMajorBefore(a, b) == a[2] < b[2] \/ (a[2] = b[2] /\ a[1] < b[1])

\* C11: for two or more different, mutually reachable floor waypoints,
\* calc_patrol_path returns a closed loop: the path visits the waypoints in list
\* order, then goes from the last back to the first and ends there.
C11_PatrolPathIsClosedLoop ==
    HasReturned("calc_patrol_path") =>
        /\ ret.value.ok
        /\ VisitsInOrder(ret.value.path, Append(call.points, call.points[1]))
        /\ Last(ret.value.path) = call.points[1]

\* C12: the path calc_patrol_path returns has no two equal consecutive points.
C12_NoRepeatedPoint ==
    HasReturned("calc_patrol_path") =>
        /\ ret.value.ok
        /\ \A i \in 1..(Len(ret.value.path) - 1) : ret.value.path[i] /= ret.value.path[i + 1]

\* C15: neighbours(p) returns, each once, exactly those of the four points one
\* node_size north, south, east and west of p that are centres of floor tiles of
\* the grid: no diagonal point, no wall tile, no point outside the grid.
C15_NeighboursAreFloorCross ==
    HasReturned("neighbours") =>
        /\ Range(ret.value) = {n \in {<<call.p[1], call.p[2] + node_size>>,
                                      <<call.p[1], call.p[2] - node_size>>,
                                      <<call.p[1] + node_size, call.p[2]>>,
                                      <<call.p[1] - node_size, call.p[2]>>} :
                                  IsFloorCentre(map, n)}
        /\ Cardinality(Range(ret.value)) = Len(ret.value)

\* neighbours of a floor centre with a wall or the edge of the grid on some side
\* and floor on another
C15_Witness ==
    /\ HasReturned("neighbours")
    /\ IsFloorCentre(map, call.p)
    /\ Len(ret.value) \in 1..3
    /\ \E x \in 0..(GridW - 1), y \in 0..(GridH - 1) :
          map[y + 1][x + 1] = "#" /\ Adjacent4(CellPoint(x, y), call.p)

\* C16: closest_point(p) returns a floor centre at the least squared distance from
\* p, the first in row-major order of those equally near; for a floor centre p
\* it returns p.
C16_ClosestIsFirstNearest ==
    HasReturned("closest_point") =>
        /\ IsFloorCentre(map, ret.value)
        /\ \A q \in Range(walkable(map)) :
              \/ distance_sqr(call.p, ret.value) < distance_sqr(call.p, q)
              \/ /\ distance_sqr(call.p, ret.value) = distance_sqr(call.p, q)
                 /\ (q = ret.value \/ RowMajorBefore(ret.value, q))
        /\ IsFloorCentre(map, call.p) => ret.value = call.p

\* closest_point of a point as near to two floor centres, the first of them returned
C16_Witness ==
    /\ HasReturned("closest_point")
    /\ ~IsFloorCentre(map, call.p)
    /\ \E q \in Range(walkable(map)) :
          /\ q /= ret.value
          /\ distance_sqr(call.p, q) = distance_sqr(call.p, ret.value)
          /\ RowMajorBefore(ret.value, q)

----------------------------------------------------------------------------
(* Numbers.  The game computes in floats; here positions and lengths are    *)
(* whole world units and a unit vector is kept in thousandths, each result  *)
(* rounded to the nearest.  Vectors along an axis are exact.                *)

Sign(n) == IF n < 0 THEN -1 ELSE IF n > 0 THEN 1 ELSE 0

Min(a, b) == IF a < b THEN a ELSE b

Max(a, b) == IF a > b THEN a ELSE b

\* a / b to the nearest integer, for b > 0
RoundDiv(a, b) == Sign(a) * ((2 * Abs(a) + b) \div (2 * b))

RECURSIVE SqrtBetween(_, _, _)
SqrtBetween(n, lo, hi) ==
    IF lo >= hi THEN lo
    ELSE IF ((lo + hi + 1) \div 2) * ((lo + hi + 1) \div 2) <= n
    THEN SqrtBetween(n, (lo + hi + 1) \div 2, hi)
    ELSE SqrtBetween(n, lo, (lo + hi + 1) \div 2 - 1)

\* the integer part of the square root of n
ISqrt(n) == SqrtBetween(n, 0, 46340)

\* p / mag in thousandths, magk being k * mag; p itself when mag is 0
Scaled(p, k, magk) ==
    IF magk = 0 THEN p
    ELSE <<RoundDiv(1000 * k * p[1], magk), RoundDiv(1000 * k * p[2], magk)>>

\* normalize: p / hypot(p), p itself when p is the zero vector.  The length is
\* taken in 1/512 units for short vectors and in 1/16 units for long ones.
normalize(p) ==
    IF p[1] * p[1] + p[2] * p[2] < 8000
    THEN Scaled(p, 512, ISqrt(512 * 512 * (p[1] * p[1] + p[2] * p[2])))
    ELSE Scaled(p, 16, ISqrt(16 * 16 * (p[1] * p[1] + p[2] * p[2])))

\* pos + d * len for a direction d in thousandths and a length in 1/100 units
Advance(pos, d, len) ==
    <<pos[1] + RoundDiv(d[1] * len, 100000), pos[2] + RoundDiv(d[2] * len, 100000)>>

----------------------------------------------------------------------------
(* Program constants *)

chase_radius == 300
attack_radius == 150
epsilon == 10
attack_frequency == 10
enemy_speed == 100
enemy_health == 100
enemy_damage == 10
player_speed == 100
player_health == 900
player_damage == 5
player_ammo == 350
bullet_speed == 500
bullet_radius == 10
body_diameter == 45

\* Player.muzzle_offset / Enemy.muzzle_offset for size (50, 50) and Bullet.SIZE
\* 12, in half units: (50/2 + 12/2, -50 * .21) = (31, -10.5)
muzzle_offset == <<62, -21>>

----------------------------------------------------------------------------
(* Physics.raycast: the segment query of the physics space with radius 1    *)
(* and RAYCAST_MASK.  Agents and bullets carry the category RAYCAST_FILTER  *)
(* that the mask excludes, so only the wall boxes that Map.make_map adds    *)
(* can be hit: one box of node_size x node_size per "#" tile.               *)

WallBoxes(data) ==
    {[x0 |-> (rc[2] - 1) * node_size, x1 |-> rc[2] * node_size,
      y0 |-> (rc[1] - 1) * node_size, y1 |-> rc[1] * node_size] :
        rc \in {xy \in (1..Len(data)) \X (1..Len(data[1])) : data[xy[1]][xy[2]] = "#"}}

Cross(a, b, p) == (b[1] - a[1]) * (p[2] - a[2]) - (b[2] - a[2]) * (p[1] - a[1])

\* the segment from a to b meets the rectangle [X0, X1] x [Y0, Y1]
SegmentMeetsRect(a, b, X0, X1, Y0, Y1) ==
    /\ Max(a[1], b[1]) >= X0 /\ Min(a[1], b[1]) <= X1
    /\ Max(a[2], b[2]) >= Y0 /\ Min(a[2], b[2]) <= Y1
    /\ ~(\A c \in {X0, X1} \X {Y0, Y1} : Cross(a, b, c) > 0)
    /\ ~(\A c \in {X0, X1} \X {Y0, Y1} : Cross(a, b, c) < 0)

\* the segment from a to b meets the box grown by r on every side
SegmentMeets(a, b, box, r) ==
    SegmentMeetsRect(a, b, box.x0 - r, box.x1 + r, box.y0 - r, box.y1 + r)

\* TRUE when the query returns a hit
raycast(data, a, b) == \E box \in WallBoxes(data) : SegmentMeets(a, b, box, 1)

----------------------------------------------------------------------------
(* Bullet *)

\* Bullet.__init__; late records that update was called after destroy
NewBullet(position, direction) ==
    [pos |-> position, dir |-> direction, destroyed |-> FALSE, late |-> FALSE]

BulletUpdate(b, dtv) ==
    [b EXCEPT !.pos = Advance(b.pos, b.dir, dtv * bullet_speed),
              !.late = b.late \/ b.destroyed]

\* the bullets kept, each updated
UpdateEach(kept, dtv) == [i \in 1..Len(kept) |-> BulletUpdate(kept[i], dtv)]

\* BulletsUpdate without the filter: every bullet of the list is updated
BulletsUpdate_Unfiltered(bullets, dtv) == UpdateEach(bullets, dtv)

\* "self.bullets = [b for b in self.bullets if not b.destroyed]" and the
\* update of each bullet kept
BulletsUpdate(bullets, dtv) == UpdateEach(SelectSeq(bullets, LAMBDA b : ~b.destroyed), dtv)

----------------------------------------------------------------------------
(* Enemy *)

NoPath == [active |-> FALSE, rest |-> <<>>]

\* Enemy.__init__; angle is kept as the unit vector the sprite faces, wp_index is
\* the position of the cycle over the waypoints, taken the number of next()
\* calls made on it, plans the number of return paths started and planned the
\* path and return target of the last one, as lines 584-585 set them; chases is
\* the number of attack calls, fired the number of bullets made, shot_at the
\* value of chases at the last of them, old_path that the return path was
\* active in the last chase
NewEnemy(position, waypoints) ==
    [pos            |-> position,
     angle          |-> <<1000, 0>>,
     health         |-> enemy_health,
     dead           |-> FALSE,
     bullets        |-> <<>>,
     state          |-> "IDLE",
     waypoints      |-> waypoints,
     wp_index       |-> 1,
     taken          |-> 1,
     patrol_target  |-> waypoints[1],
     return_path    |-> NoPath,
     return_target  |-> None,
     plans          |-> 0,
     planned        |-> None,
     chases         |-> 0,
     fired          |-> 0,
     shot_at        |-> 0,
     old_path       |-> FALSE,
     removed        |-> 0,
     current_attack |-> 0]

\* enemy_do_damage without the return below zero
enemy_do_damage_AtOrBelowZero(e) ==
    IF e.health - enemy_damage <= 0
    THEN [e EXCEPT !.health = e.health - enemy_damage, !.bullets = <<>>, !.dead = TRUE,
                   !.removed = e.removed + 1]
    ELSE [e EXCEPT !.health = e.health - enemy_damage]

\* Enemy.do_damage: below zero it returns with the health lowered, at zero the
\* enemy dies; removed counts the calls of physics.remove(body, shape)
enemy_do_damage(e) ==
    IF e.health - enemy_damage = 0
    THEN [e EXCEPT !.health = 0, !.bullets = <<>>, !.dead = TRUE,
                   !.removed = e.removed + 1]
    ELSE [e EXCEPT !.health = e.health - enemy_damage]

look_at(e, target) ==
    [e EXCEPT !.angle =
        IF target = e.pos THEN <<1000, 0>>
        ELSE normalize(<<target[1] - e.pos[1], target[2] - e.pos[2]>>)]

move_to_target(e, target, dtv) ==
    IF distance_sqr(<<0, 0>>, <<target[1] - e.pos[1], target[2] - e.pos[2]>>) = 0 THEN e
    ELSE [e EXCEPT !.pos =
            Advance(e.pos, normalize(<<target[1] - e.pos[1], target[2] - e.pos[2]>>),
                    enemy_speed * dtv)]

\* "self.look_at(target); self.move_to_target(target, dt)"
steer_to(e, target, dtv) == move_to_target(look_at(e, target), target, dtv)

\* next(self.waypoints) on the cycle over the waypoint list
NextWaypoint(e) ==
    [e EXCEPT !.wp_index = (e.wp_index % Len(e.waypoints)) + 1,
              !.taken = e.taken + 1,
              !.patrol_target = e.waypoints[(e.wp_index % Len(e.waypoints)) + 1]]

\* the second half of patrol, on the enemy with its patrol target chosen
patrol_on(e, dtv) == steer_to(e, e.patrol_target, dtv)

patrol(e, dtv) ==
    patrol_on(IF distance_sqr(e.pos, e.patrol_target) < epsilon THEN NextWaypoint(e) ELSE e,
              dtv)

\* the second half of return_to_patrol, on the enemy with its return target chosen
return_on(e, dtv) == steer_to(e, e.return_target, dtv)

\* return_to_patrol taking the next waypoint whenever it takes the next point of
\* the return path
return_to_patrol_Advancing(e, dtv) ==
    IF distance_sqr(e.pos, e.return_target) >= epsilon THEN return_on(e, dtv)
    ELSE IF e.return_path.rest = <<>> THEN [e EXCEPT !.return_path = NoPath]
    ELSE return_on(NextWaypoint([e EXCEPT !.return_target = Head(e.return_path.rest),
                                          !.return_path.rest = Tail(e.return_path.rest)]), dtv)

\* return_to_patrol and the assignment of its result to self.return_path
return_to_patrol(e, dtv) ==
    IF distance_sqr(e.pos, e.return_target) >= epsilon THEN return_on(e, dtv)
    ELSE IF e.return_path.rest = <<>> THEN [e EXCEPT !.return_path = NoPath]
    ELSE return_on([e EXCEPT !.return_target = Head(e.return_path.rest),
                             !.return_path.rest = Tail(e.return_path.rest)], dtv)

\* the point the bullet leaves from: pos + muzzle_mag * (cos, sin)(muzzle_angle - angle)
Muzzle(e) ==
    <<e.pos[1] + RoundDiv(muzzle_offset[1] * e.angle[1] - muzzle_offset[2] * e.angle[2], 2000),
      e.pos[2] + RoundDiv(muzzle_offset[1] * e.angle[2] + muzzle_offset[2] * e.angle[1], 2000)>>

\* attack counting on from one after a shot
attack_CountsFromOne(e, target) ==
    IF e.current_attack + 1 = attack_frequency
    THEN [e EXCEPT !.bullets =
                      Append(e.bullets,
                             NewBullet(Muzzle(e),
                                       normalize(<<target[1] - e.pos[1], target[2] - e.pos[2]>>))),
                   !.current_attack = 1,
                   !.chases = e.chases + 1,
                   !.fired = e.fired + 1,
                   !.shot_at = e.chases + 1]
    ELSE [e EXCEPT !.current_attack = e.current_attack + 1,
                   !.chases = e.chases + 1]

attack(e, target) ==
    IF e.current_attack + 1 = attack_frequency
    THEN [e EXCEPT !.bullets =
                      Append(e.bullets,
                             NewBullet(Muzzle(e),
                                       normalize(<<target[1] - e.pos[1], target[2] - e.pos[2]>>))),
                   !.current_attack = 0,
                   !.chases = e.chases + 1,
                   !.fired = e.fired + 1,
                   !.shot_at = e.chases + 1]
    ELSE [e EXCEPT !.current_attack = e.current_attack + 1,
                   !.chases = e.chases + 1]

\* the middle of chase: approach while farther than the attack radius
approach(e, target, dtv) ==
    IF distance_sqr(e.pos, target) > attack_radius * attack_radius
    THEN move_to_target(e, target, dtv) ELSE e

chase(e, target, dtv) ==
    attack(approach(look_at([e EXCEPT !.old_path = e.return_path.active], target),
                    target, dtv),
           target)

\* lines 584-585: the return path asked of the path finder.  error is set
\* when calculate_path raises, which ends the update there.
Renavigate(e, path) ==
    IF ~path.ok THEN [e |-> e, error |-> TRUE]
    ELSE [e |-> [e EXCEPT !.return_path = [active |-> TRUE, rest |-> Tail(path.path)],
                          !.return_target = Head(path.path),
                          !.plans = e.plans + 1,
                          !.old_path = FALSE,
                          !.planned = [path |-> path.path, target |-> Head(path.path)]],
          error |-> FALSE]

\* lines 577-585: an enemy that was chasing lost sight of the player outside the radius
LoseSight(e, data) ==
    IF ~raycast(data, e.pos, e.patrol_target) THEN [e |-> e, error |-> FALSE]
    ELSE Renavigate(e, calculate_path(data, closest_point(data, e.pos),
                                      closest_point(data, e.patrol_target)))

\* Reevaluate with the two outcomes of the raycast exchanged inside the radius
Reevaluate_Swapped(e, pl, data) ==
    IF pl.dead THEN [e |-> [e EXCEPT !.state = "PATROL"], error |-> FALSE]
    ELSE IF distance_sqr(pl.pos, e.pos) < chase_radius * chase_radius
    THEN [e |-> [e EXCEPT !.state = IF raycast(data, e.pos, pl.pos) THEN "CHASE" ELSE "PATROL"],
          error |-> FALSE]
    ELSE IF e.state /= "CHASE" THEN [e |-> e, error |-> FALSE]
    ELSE IF ~raycast(data, e.pos, pl.pos)
    THEN [e |-> [e EXCEPT !.state = "CHASE"], error |-> FALSE]
    ELSE LoseSight([e EXCEPT !.state = "PATROL"], data)

\* Reevaluate without the test of the previous state outside the radius
Reevaluate_NoHysteresis(e, pl, data) ==
    IF pl.dead THEN [e |-> [e EXCEPT !.state = "PATROL"], error |-> FALSE]
    ELSE IF distance_sqr(pl.pos, e.pos) < chase_radius * chase_radius
    THEN [e |-> [e EXCEPT !.state = IF raycast(data, e.pos, pl.pos) THEN "PATROL" ELSE "CHASE"],
          error |-> FALSE]
    ELSE IF ~raycast(data, e.pos, pl.pos)
    THEN [e |-> [e EXCEPT !.state = "CHASE"], error |-> FALSE]
    ELSE LoseSight([e EXCEPT !.state = "PATROL"], data)

\* Reevaluate without the test of player.dead
Reevaluate_NoDeadCheck(e, pl, data) ==
    IF distance_sqr(pl.pos, e.pos) < chase_radius * chase_radius
    THEN [e |-> [e EXCEPT !.state = IF raycast(data, e.pos, pl.pos) THEN "PATROL" ELSE "CHASE"],
          error |-> FALSE]
    ELSE IF e.state /= "CHASE" THEN [e |-> e, error |-> FALSE]
    ELSE IF ~raycast(data, e.pos, pl.pos)
    THEN [e |-> [e EXCEPT !.state = "CHASE"], error |-> FALSE]
    ELSE LoseSight([e EXCEPT !.state = "PATROL"], data)

\* Reevaluate with the test of the previous state negated
Reevaluate_InvertedHysteresis(e, pl, data) ==
    IF pl.dead THEN [e |-> [e EXCEPT !.state = "PATROL"], error |-> FALSE]
    ELSE IF distance_sqr(pl.pos, e.pos) < chase_radius * chase_radius
    THEN [e |-> [e EXCEPT !.state = IF raycast(data, e.pos, pl.pos) THEN "PATROL" ELSE "CHASE"],
          error |-> FALSE]
    ELSE IF e.state = "CHASE" THEN [e |-> e, error |-> FALSE]
    ELSE IF ~raycast(data, e.pos, pl.pos)
    THEN [e |-> [e EXCEPT !.state = "CHASE"], error |-> FALSE]
    ELSE LoseSight([e EXCEPT !.state = "PATROL"], data)

\* the first part of Enemy.update: the state is chosen again
Reevaluate(e, pl, data) ==
    IF pl.dead THEN [e |-> [e EXCEPT !.state = "PATROL"], error |-> FALSE]
    ELSE IF distance_sqr(pl.pos, e.pos) < chase_radius * chase_radius
    THEN [e |-> [e EXCEPT !.state = IF raycast(data, e.pos, pl.pos) THEN "PATROL" ELSE "CHASE"],
          error |-> FALSE]
    ELSE IF e.state /= "CHASE" THEN [e |-> e, error |-> FALSE]
    ELSE IF ~raycast(data, e.pos, pl.pos)
    THEN [e |-> [e EXCEPT !.state = "CHASE"], error |-> FALSE]
    ELSE LoseSight([e EXCEPT !.state = "PATROL"], data)

\* Behave without the step from IDLE to PATROL
Behave_NoBootstrap(e, pl, dtv) ==
    IF e.state = "PATROL"
    THEN IF e.return_path.active THEN return_to_patrol(e, dtv) ELSE patrol(e, dtv)
    ELSE IF e.state = "CHASE" THEN chase(e, pl.pos, dtv)
    ELSE e

\* Behave calling patrol where it should call chase
Behave_ChasePatrols(e, pl, dtv) ==
    IF e.state = "IDLE" THEN [e EXCEPT !.state = "PATROL"]
    ELSE IF e.state = "PATROL"
    THEN IF e.return_path.active THEN return_to_patrol(e, dtv) ELSE patrol(e, dtv)
    ELSE IF e.state = "CHASE" THEN patrol(e, dtv)
    ELSE e

\* the second part: the behaviour of the state chosen
Behave(e, pl, dtv) ==
    IF e.state = "IDLE" THEN [e EXCEPT !.state = "PATROL"]
    ELSE IF e.state = "PATROL"
    THEN IF e.return_path.active THEN return_to_patrol(e, dtv) ELSE patrol(e, dtv)
    ELSE IF e.state = "CHASE" THEN chase(e, pl.pos, dtv)
    ELSE e

\* the third part: the bullets
UpdateBullets(e, dtv) == [e EXCEPT !.bullets = BulletsUpdate(e.bullets, dtv)]

\* Enemy.update after the state was chosen
Act(chosen, pl, dtv) ==
    IF chosen.error THEN chosen
    ELSE [e |-> UpdateBullets(Behave(chosen.e, pl, dtv), dtv), error |-> FALSE]

\* Enemy.update
enemy_update(e, pl, data, dtv) == Act(Reevaluate(e, pl, data), pl, dtv)

----------------------------------------------------------------------------
(* Player *)

NewPlayer(position) ==
    [pos     |-> position,
     angle   |-> <<1000, 0>>,
     health  |-> player_health,
     dead    |-> FALSE,
     ammo    |-> player_ammo,
     removed |-> 0,
     bullets |-> <<>>]

\* Player.event(MOUSE_MOTION): the sprite turns to the cursor
player_mouse_motion(pl, cursor) ==
    [pl EXCEPT !.angle = IF cursor = pl.pos THEN <<1000, 0>>
                         ELSE normalize(<<cursor[1] - pl.pos[1], cursor[2] - pl.pos[2]>>)]

\* Player.shoot(_dir)
shoot(pl, direction) ==
    IF pl.ammo <= 0 THEN pl
    ELSE [pl EXCEPT !.ammo = pl.ammo - 1,
                    !.bullets = Append(pl.bullets, NewBullet(Muzzle(pl), direction))]

\* Player.event(MOUSE_DOWN) with the left button
player_mouse_down(pl, cursor) ==
    shoot(pl, normalize(<<cursor[1] - pl.pos[1], cursor[2] - pl.pos[2]>>))

\* KEYMAP, in the order of the dictionary
KEYMAP == <<[key |-> "W", dir |-> <<0, 1>>], [key |-> "S", dir |-> <<0, -1>>],
            [key |-> "A", dir |-> <<-1, 0>>], [key |-> "D", dir |-> <<1, 0>>]>>

RECURSIVE HeldDir(_, _, _)
HeldDir(held, i, d) ==
    \* the loop over KEYMAP: the last held key in its order gives the direction
    IF i > Len(KEYMAP) THEN d
    ELSE HeldDir(held, i + 1, IF KEYMAP[i].key \in held THEN KEYMAP[i].dir ELSE d)

\* the player moved by d at the speed given, its bullets updated
player_moved(pl, d, speed, dtv) ==
    [pl EXCEPT !.pos = <<pl.pos[1] + RoundDiv(d[1] * dtv * speed, 100),
                         pl.pos[2] + RoundDiv(d[2] * dtv * speed, 100)>>,
               !.bullets = BulletsUpdate(pl.bullets, dtv)]

\* Player.update; 2.5 * speed when a shift key is held
player_update(pl, held, dtv) ==
    player_moved(pl, HeldDir(held, 1, <<0, 0>>),
                 IF "SHIFT" \in held THEN (5 * player_speed) \div 2 ELSE player_speed, dtv)

\* Player.do_damage: below zero it returns with the health lowered, at zero
\* the player dies
player_do_damage(pl) ==
    IF pl.health - player_damage = 0
    THEN [pl EXCEPT !.health = 0, !.bullets = <<>>, !.dead = TRUE,
                    !.removed = pl.removed + 1]
    ELSE [pl EXCEPT !.health = pl.health - player_damage]

RECURSIVE DamageTimes(_, _)
\* one collide_enemy_bullet call per bullet that reached the player
DamageTimes(pl, n) == IF n = 0 THEN pl ELSE DamageTimes(player_do_damage(pl), n - 1)

----------------------------------------------------------------------------
(* Entity (src/core/entity/entity.py) *)

entity_min_health == 0

NewEntity(h) == [health |-> h, destroyed |-> FALSE]

\* Entity.damage(amount)
entity_damage(en, amount) ==
    [en EXCEPT !.health = en.health - amount,
               !.destroyed = en.destroyed \/ en.health - amount <= entity_min_health]

----------------------------------------------------------------------------
(* Specification of one damage application by itself: an agent with some    *)
(* health left is damaged once.                                             *)

MaxHealth == 20
MaxDamage == 6

DamageCalls ==
    {[fn |-> "Player.do_damage", health |-> h, amount |-> player_damage] : h \in 1..MaxHealth}
    \cup {[fn |-> "Enemy.do_damage", health |-> h, amount |-> enemy_damage] : h \in 1..MaxHealth}
    \cup {[fn |-> "Entity.damage", health |-> h, amount |-> a] :
            h \in 1..MaxHealth, a \in 1..MaxDamage}

InitDamage ==
    /\ call \in DamageCalls
    /\ ret = None
    /\ map = None
    /\ start = None /\ goal = None /\ search = None /\ ppc = "idle" /\ result = None
    /\ level = None /\ player = None /\ enemies = None /\ agents = None
    /\ keys = None /\ dt = 0 /\ status = None /\ crash = FALSE
    /\ tick = 0 /\ nkeys = 0 /\ horizon = 0
    /\ obs = None
    /\ mouse = None /\ nclicks = 0
    /\ state = None /\ paused = None /\ nmenu = 0
    /\ level_data = None /\ authored = None

\* Player.do_damage() on a player with call.health left
PlayerDoDamage ==
    /\ ret = None
    /\ call.fn = "Player.do_damage"
    /\ \E pl \in {player_do_damage([NewPlayer(<<0, 0>>) EXCEPT !.health = call.health])} :
          ret' = [health |-> pl.health, dead |-> pl.dead]
    /\ UNCHANGED <<call, pathVars, levelVars, gameVars, editorVars>>

\* Enemy.do_damage() on an enemy with call.health left
EnemyDoDamage ==
    /\ ret = None
    /\ call.fn = "Enemy.do_damage"
    /\ \E e \in {enemy_do_damage([NewEnemy(<<0, 0>>, <<<<0, 0>>>>) EXCEPT !.health = call.health])} :
          ret' = [health |-> e.health, dead |-> e.dead]
    /\ UNCHANGED <<call, pathVars, levelVars, gameVars, editorVars>>

\* Entity.damage(amount) on an entity with call.health left
EntityDamage ==
    /\ ret = None
    /\ call.fn = "Entity.damage"
    /\ \E en \in {entity_damage(NewEntity(call.health), call.amount)} :
          ret' = [health |-> en.health, dead |-> en.destroyed]
    /\ UNCHANGED <<call, pathVars, levelVars, gameVars, editorVars>>

NextDamage == PlayerDoDamage \/ EnemyDoDamage \/ EntityDamage

SpecDamage == InitDamage /\ [][NextDamage]_vars

\* C14: a damage application that brings an agent's health to zero or below
\* leaves the agent dead, whether or not the health is exactly zero.
C14_DamageToZeroOrBelowKills ==
    (ret /= None /\ ret.health <= 0) => ret.dead

----------------------------------------------------------------------------
(* Physics.update for the shapes the level moves by hand: the bullets.      *)
(* A bullet is a circle of bullet_radius, the player a circle of            *)
(* body_diameter / 2; the begin handlers run when two shapes start to       *)
(* overlap.  The player's shape is in the space until the player dies.      *)
(* What the solver does to agents that touch a wall or each other is not    *)
(* described: the levels followed below keep the agents' bodies clear of    *)
(* the walls and of each other.                                             *)

\* a circle of radius r around c overlaps the box
CircleMeetsBox(c, r, box) ==
    Max(Max(box.x0 - c[1], c[1] - box.x1), 0) * Max(Max(box.x0 - c[1], c[1] - box.x1), 0)
      + Max(Max(box.y0 - c[2], c[2] - box.y1), 0) * Max(Max(box.y0 - c[2], c[2] - box.y1), 0)
      < r * r

\* Bullet.collide_wall is called for b
HitsWall(b, data) ==
    ~b.destroyed /\ \E box \in WallBoxes(data) : CircleMeetsBox(b.pos, bullet_radius, box)

\* Player.collide_enemy_bullet is called for b
HitsPlayer(b, pl) ==
    /\ ~b.destroyed
    /\ ~pl.dead
    /\ 4 * distance_sqr(b.pos, pl.pos)
         < (2 * bullet_radius + body_diameter) * (2 * bullet_radius + body_diameter)

\* Enemy.collide_player_bullet is called on e for b
HitsEnemy(b, e) ==
    /\ ~b.destroyed
    /\ ~e.dead
    /\ 4 * distance_sqr(b.pos, e.pos)
         < (2 * bullet_radius + body_diameter) * (2 * bullet_radius + body_diameter)

\* Bullet.destroy, called by either handler, for a bullet of an enemy
Collided(b, pl, data) ==
    [b EXCEPT !.destroyed = b.destroyed \/ HitsWall(b, data) \/ HitsPlayer(b, pl)]

\* Bullet.destroy, called by either handler, for a bullet of the player
CollidedOfPlayer(b, es, data) ==
    [b EXCEPT !.destroyed = b.destroyed \/ HitsWall(b, data)
                              \/ \E i \in DOMAIN es : HitsEnemy(b, es[i])]

RECURSIVE EnemyDamageTimes(_, _)
\* one collide_player_bullet call per bullet that reached the enemy
EnemyDamageTimes(e, n) ==
    IF n = 0 THEN e ELSE EnemyDamageTimes(enemy_do_damage(e), n - 1)

\* the bullets of the list after the handlers ran
MarkEach(bullets, pl, data) ==
    [j \in 1..Len(bullets) |-> Collided(bullets[j], pl, data)]

MarkEachOfPlayer(bullets, es, data) ==
    [j \in 1..Len(bullets) |-> CollidedOfPlayer(bullets[j], es, data)]

\* the number of bullets of the list that reached the enemy
HitCount(bullets, e) == Cardinality({j \in 1..Len(bullets) : HitsEnemy(bullets[j], e)})

\* the bullets of all enemies, as <<enemy, index>>
Shots(es) == UNION {{<<i, j>> : j \in 1..Len(es[i].bullets)} : i \in DOMAIN es}

\* the begin handlers of one step: every bullet that met something is destroyed,
\* then the agent it met is damaged (which empties the bullet list of an agent
\* that dies)
PhysicsStep(pl, es, data) ==
    [player  |-> DamageTimes([pl EXCEPT !.bullets = MarkEachOfPlayer(pl.bullets, es, data)],
                             Cardinality({ij \in Shots(es) :
                                            HitsPlayer(es[ij[1]].bullets[ij[2]], pl)})),
     enemies |-> [i \in DOMAIN es |->
                    EnemyDamageTimes([es[i] EXCEPT !.bullets = MarkEach(es[i].bullets, pl, data)],
                                     HitCount(pl.bullets, es[i]))]]

----------------------------------------------------------------------------
(* Level *)

\* PatrolLoop handing the list of the level file on as it is
PatrolLoop_Plain(path) == path

\* Level.reload: the waypoints handed to Enemy are path + path[::-1][1:-1]
PatrolLoop(path) == path \o SubSeq(Reverse(path), 2, Len(path) - 1)

\* Level.agents after reload: the player (0), then the enemies by index
ReloadAgents(n) == [k \in 1..(n + 1) |-> k - 1]

RemoveAt(s, i) == SubSeq(s, 1, i - 1) \o SubSeq(s, i + 1, Len(s))

RECURSIVE RemoveDead(_, _, _)
\* "for agent in self.agents: if ... agent.dead: self.agents.remove(agent)":
\* the list is changed while the loop walks it by position
RemoveDead(ags, es, k) ==
    IF k > Len(ags) THEN ags
    ELSE RemoveDead(IF ags[k] /= 0 /\ es[ags[k]].dead THEN RemoveAt(ags, k) ELSE ags,
                    es, k + 1)

\* the locals of one Enemy.update call, read before it acts
Observe(e, pl, data, frame) ==
    [ran             |-> TRUE,
     frame           |-> frame,
     previous_state  |-> e.state,
     player_dead     |-> pl.dead,
     player_distance |-> distance_sqr(pl.pos, e.pos),
     hit             |-> raycast(data, e.pos, pl.pos),
     enemy_dead      |-> e.dead,
     pos             |-> e.pos,
     player_pos      |-> pl.pos,
     patrol_target   |-> e.patrol_target,
     taken           |-> e.taken,
     return_active   |-> e.return_path.active,
     plans           |-> e.plans,
     return_target   |-> e.return_target,
     return_rest     |-> e.return_path.rest,
     old_path        |-> e.old_path,
     current_attack  |-> e.current_attack,
     chases          |-> e.chases,
     fired           |-> e.fired,
     shot_at         |-> e.shot_at,
     raised          |-> FALSE,
     dropped         |-> FALSE,
     after_drop      |-> FALSE]

NotRun ==
    [ran |-> FALSE, frame |-> 0, previous_state |-> "IDLE", player_dead |-> FALSE,
     player_distance |-> 0, hit |-> FALSE, enemy_dead |-> FALSE, pos |-> <<0, 0>>,
     player_pos |-> <<0, 0>>, patrol_target |-> <<0, 0>>, taken |-> 0,
     return_active |-> FALSE, plans |-> 0, return_target |-> None, return_rest |-> <<>>,
     old_path |-> FALSE, current_attack |-> 0, chases |-> 0, fired |-> 0, shot_at |-> 0,
     raised |-> FALSE, dropped |-> FALSE, after_drop |-> FALSE]

\* the level after enemy i's update returned r (or raised); dropped records
\* that this update dropped the return path, after_drop that the update before
\* it did
EnemyUpdated(st, i, r, o) ==
    [st EXCEPT !.enemies[i] = r.e,
               !.obs[i] = [o EXCEPT !.raised = r.error,
                                    !.dropped = o.return_active /\ ~r.e.return_path.active,
                                    !.after_drop = st.obs[i].dropped],
               !.crash = r.error]

\* agent.update(dt) for the agent a
UpdateAgent(a, st, held, dtv, data, frame) ==
    IF a = 0 THEN [st EXCEPT !.player = player_update(st.player, held, dtv)]
    ELSE EnemyUpdated(st, a, enemy_update(st.enemies[a], st.player, data, dtv),
                      Observe(st.enemies[a], st.player, data, frame))

RECURSIVE UpdateAgents(_, _, _, _, _, _, _)
\* "for agent in self.agents: agent.update(dt)"; an exception ends the loop
UpdateAgents(ags, k, st, held, dtv, data, frame) ==
    IF k > Len(ags) \/ st.crash THEN st
    ELSE UpdateAgents(ags, k + 1, UpdateAgent(ags[k], st, held, dtv, data, frame),
                      held, dtv, data, frame)

\* lines 991-998: the status after the agents were updated
NextStatus(old, ags, pl) ==
    IF \A k \in 1..Len(ags) : ags[k] = 0 THEN "PASSED"
    ELSE IF pl.dead THEN "FAILED"
    ELSE old

----------------------------------------------------------------------------
(* The levels followed.  Each is a level file (map, player, enemies and     *)
(* their waypoints, as the editor saves them) with the keys the player      *)
(* uses in it and how many times at most, the points the player shoots at,  *)
(* in their order, and the number of frames followed.  keywindows and       *)
(* clickwindows give, for each key event and each shot, the first and the   *)
(* last frame after which it may come.                                      *)

MaxTicks == 12
MaxKeyEvents == 3
DuelTicks == 1805
CrossfireTicks == 4
ReturnTicks == 27
ComebackTicks == 22
LastStandTicks == 1810
LastStandWindow == 12
OverkillShots == 11

\* n events, each at any time of the frames followed
Anytime(n, frames) == [k \in 1..n |-> <<0, frames>>]

\* the event may come now
InWindow(windows, k, now) == windows[k][1] <= now /\ now <= windows[k][2]

TileMap(w, h, walls) ==
    [r \in 1..h |-> [c \in 1..w |-> IF <<c - 1, r - 1>> \in walls THEN "#" ELSE " "]]

\* no walls, every point within the chase radius of every other
LevelOpen ==
    [name |-> "open", map |-> TileMap(2, 2, {}),
     player |-> <<150, 150>>, enemies |-> <<<<50, 50>>>>,
     waypoints |-> <<<< <<50, 50>>, <<150, 50>>, <<50, 150>> >>>>,
     keys |-> {"W"}, keyevents |-> MaxKeyEvents, clicks |-> <<>>, frames |-> MaxTicks,
     keywindows |-> Anytime(MaxKeyEvents, MaxTicks), clickwindows |-> <<>>]

\* an open corridor, the player beyond the chase radius
LevelCorridor ==
    [name |-> "corridor", map |-> TileMap(6, 1, {}),
     player |-> <<500, 0>>, enemies |-> <<<<0, 0>>>>,
     waypoints |-> <<<< <<0, 0>>, <<200, 0>> >>>>,
     keys |-> {"A", "D", "SHIFT"}, keyevents |-> MaxKeyEvents, clicks |-> <<>>, frames |-> MaxTicks,
     keywindows |-> Anytime(MaxKeyEvents, MaxTicks), clickwindows |-> <<>>]

\* the same corridor with a wall between the two
LevelCorridorWall ==
    [name |-> "corridor_wall", map |-> TileMap(6, 1, {<<2, 0>>}),
     player |-> <<500, 0>>, enemies |-> <<<<0, 0>>>>,
     waypoints |-> <<<< <<0, 0>>, <<100, 0>> >>>>,
     keys |-> {"D", "SHIFT"}, keyevents |-> MaxKeyEvents, clicks |-> <<>>, frames |-> MaxTicks,
     keywindows |-> Anytime(MaxKeyEvents, MaxTicks), clickwindows |-> <<>>]

\* a wall within the chase radius, between enemy and player
LevelWall ==
    [name |-> "wall", map |-> TileMap(5, 1, {<<2, 0>>}),
     player |-> <<350, 50>>, enemies |-> <<<<150, 50>>>>,
     waypoints |-> <<<< <<150, 50>>, <<50, 50>> >>>>,
     keys |-> {"W", "SHIFT"}, keyevents |-> MaxKeyEvents, clicks |-> <<>>, frames |-> MaxTicks,
     keywindows |-> Anytime(MaxKeyEvents, MaxTicks), clickwindows |-> <<>>]

\* a wall the player can step behind, the patrol target behind it too
LevelAlcove ==
    [name |-> "alcove", map |-> TileMap(6, 2, {<<3, 0>>}),
     player |-> <<425, 150>>, enemies |-> <<<<150, 50>>>>,
     waypoints |-> <<<< <<450, 50>>, <<150, 50>> >>>>,
     keys |-> {"D", "SHIFT"}, keyevents |-> MaxKeyEvents, clicks |-> <<>>, frames |-> MaxTicks,
     keywindows |-> Anytime(MaxKeyEvents, MaxTicks), clickwindows |-> <<>>]

\* as the alcove, the patrol target in a cell no route leads to
LevelPocket ==
    [name |-> "pocket", map |-> TileMap(9, 2, {<<3, 0>>, <<7, 0>>, <<8, 1>>}),
     player |-> <<425, 150>>, enemies |-> <<<<150, 50>>>>,
     waypoints |-> <<<< <<850, 50>>, <<150, 50>> >>>>,
     keys |-> {"D", "SHIFT"}, keyevents |-> MaxKeyEvents, clicks |-> <<>>, frames |-> MaxTicks,
     keywindows |-> Anytime(MaxKeyEvents, MaxTicks), clickwindows |-> <<>>]

\* the player stands in the attack radius of one enemy until it dies; a
\* second enemy patrols behind a wall
LevelDuel ==
    [name |-> "duel", map |-> TileMap(8, 1, {<<4, 0>>}),
     player |-> <<150, 50>>, enemies |-> << <<50, 50>>, <<650, 50>> >>,
     waypoints |-> << << <<50, 50>>, <<250, 50>> >>, << <<650, 50>>, <<750, 50>> >> >>,
     keys |-> {}, keyevents |-> MaxKeyEvents, clicks |-> <<>>, frames |-> DuelTicks,
     keywindows |-> Anytime(MaxKeyEvents, DuelTicks), clickwindows |-> <<>>]

\* an enemy walks its round of three waypoints, the player out of its reach
LevelRounds ==
    [name |-> "rounds", map |-> TileMap(5, 1, {}),
     player |-> <<450, 50>>, enemies |-> <<<<50, 50>>>>,
     waypoints |-> <<<< <<50, 50>>, <<70, 50>>, <<70, 70>> >>>>,
     keys |-> {}, keyevents |-> MaxKeyEvents, clicks |-> <<>>, frames |-> MaxTicks,
     keywindows |-> Anytime(MaxKeyEvents, MaxTicks), clickwindows |-> <<>>]

\* the player stands between two enemies and shoots at one and the other in
\* turn, as many times as it takes to kill both
LevelCrossfire ==
    [name |-> "crossfire", map |-> TileMap(4, 1, {}),
     player |-> <<200, 50>>, enemies |-> << <<145, 50>>, <<255, 50>> >>,
     waypoints |-> << << <<145, 50>> >>, << <<255, 50>> >> >>,
     keys |-> {}, keyevents |-> MaxKeyEvents,
     clicks |-> [k \in 1..(2 * (enemy_health \div enemy_damage)) |->
                    IF k % 2 = 1 THEN <<145, 50>> ELSE <<255, 50>>],
     frames |-> CrossfireTicks,
     keywindows |-> Anytime(MaxKeyEvents, CrossfireTicks), clickwindows |-> Anytime(2 * (enemy_health \div enemy_damage), CrossfireTicks)]

\* as the alcove, with a second wall that hides the patrol target two cells
\* from the enemy: the player runs out of sight and the enemy walks back
LevelReturn ==
    [name |-> "return", map |-> TileMap(6, 2, {<<3, 0>>, <<1, 1>>}),
     player |-> <<425, 150>>, enemies |-> <<<<150, 50>>>>,
     waypoints |-> <<<< <<50, 150>>, <<150, 50>> >>>>,
     keys |-> {"D", "SHIFT"}, keyevents |-> 2, clicks |-> <<>>, frames |-> ReturnTicks,
     keywindows |-> Anytime(2, ReturnTicks), clickwindows |-> <<>>]

\* the same with the patrol target away from the centre of its tile
LevelReturnAside ==
    [name |-> "return_aside", map |-> TileMap(6, 2, {<<3, 0>>, <<1, 1>>}),
     player |-> <<425, 150>>, enemies |-> <<<<150, 50>>>>,
     waypoints |-> <<<< <<60, 140>>, <<150, 50>> >>>>,
     keys |-> {"D", "SHIFT"}, keyevents |-> 2, clicks |-> <<>>, frames |-> ReturnTicks,
     keywindows |-> Anytime(2, ReturnTicks), clickwindows |-> <<>>]

\* the player shoots the enemy nine times at once and then stands in its
\* attack radius; about the time it dies it shoots once more and walks on
LevelLastStand ==
    [name |-> "last_stand", map |-> TileMap(3, 1, {}),
     player |-> <<150, 50>>, enemies |-> <<<<50, 50>>>>,
     waypoints |-> << << <<50, 50>>, <<250, 50>> >> >>,
     keys |-> {"D"}, keyevents |-> 1,
     clicks |-> [k \in 1..(enemy_health \div enemy_damage) |-> <<50, 50>>],
     frames |-> LastStandTicks,
     keywindows |-> <<<<LastStandTicks - LastStandWindow, LastStandTicks>>>>,
     clickwindows |-> [k \in 1..(enemy_health \div enemy_damage) |->
                         IF k < enemy_health \div enemy_damage THEN <<0, 0>>
                         ELSE <<LastStandTicks - LastStandWindow, LastStandTicks>>]]

\* the player shoots one enemy more often than it takes, all bullets at once
LevelOverkill ==
    [name |-> "overkill", map |-> TileMap(4, 1, {}),
     player |-> <<200, 50>>, enemies |-> << <<145, 50>>, <<350, 50>> >>,
     waypoints |-> << << <<145, 50>> >>, << <<350, 50>> >> >>,
     keys |-> {}, keyevents |-> 0,
     clicks |-> [k \in 1..OverkillShots |-> <<145, 50>>],
     frames |-> CrossfireTicks,
     keywindows |-> <<>>, clickwindows |-> [k \in 1..OverkillShots |-> <<0, 0>>]]

\* as the alcove: the player runs out of sight, stops, and runs on when the
\* enemy is on its way back
LevelComeback ==
    [name |-> "comeback", map |-> TileMap(6, 2, {<<3, 0>>}),
     player |-> <<425, 150>>, enemies |-> <<<<150, 50>>>>,
     waypoints |-> <<<< <<450, 50>>, <<150, 50>> >>>>,
     keys |-> {"D", "SHIFT"}, keyevents |-> 4, clicks |-> <<>>, frames |-> ComebackTicks,
     keywindows |-> << <<1, 1>>, <<1, 1>>, <<2, 3>>, <<14, 18>> >>, clickwindows |-> <<>>]

Levels ==
    {LevelOpen, LevelCorridor, LevelCorridorWall, LevelWall, LevelAlcove, LevelPocket,
     LevelDuel, LevelRounds, LevelCrossfire, LevelReturn, LevelReturnAside,
     LevelComeback, LevelLastStand, LevelOverkill}

FrameTimes == {10}

----------------------------------------------------------------------------
(* Specification of a level being played *)

\* Level.reload
Init ==
    /\ level \in Levels
    /\ map = level.map
    /\ start = None /\ goal = None /\ search = None /\ ppc = "idle" /\ result = None
    /\ player = NewPlayer(level.player)
    /\ enemies = [i \in 1..Len(level.enemies) |->
                    NewEnemy(level.enemies[i], PatrolLoop(level.waypoints[i]))]
    /\ agents = ReloadAgents(Len(level.enemies))
    /\ keys = {}
    /\ dt \in FrameTimes
    /\ status = "RUNNING"
    /\ crash = FALSE
    /\ tick = 0
    /\ nkeys = 0
    /\ horizon = level.frames
    /\ obs = [i \in 1..Len(level.enemies) |-> NotRun]
    /\ mouse = None
    /\ nclicks = 0
    /\ call = None /\ ret = None
    /\ state = "RUNNING" /\ paused = None /\ nmenu = 0
    /\ level_data = None /\ authored = None

\* on_key_press reaching the player's key state handler
KeyPress ==
    /\ ~crash
    /\ nkeys < level.keyevents
    /\ InWindow(level.keywindows, nkeys + 1, tick)
    /\ tick < horizon
    /\ \E k \in level.keys \ keys : keys' = keys \cup {k}
    /\ nkeys' = nkeys + 1
    /\ UNCHANGED <<level, player, enemies, agents, dt, status, crash, tick, horizon, obs,
                   mouse, nclicks>>
    /\ UNCHANGED pathVars
    /\ UNCHANGED <<callVars, gameVars, editorVars>>

\* on_key_release
KeyRelease ==
    /\ ~crash
    /\ nkeys < level.keyevents
    /\ InWindow(level.keywindows, nkeys + 1, tick)
    /\ tick < horizon
    /\ \E k \in keys : keys' = keys \ {k}
    /\ nkeys' = nkeys + 1
    /\ UNCHANGED <<level, player, enemies, agents, dt, status, crash, tick, horizon, obs,
                   mouse, nclicks>>
    /\ UNCHANGED pathVars
    /\ UNCHANGED <<callVars, gameVars, editorVars>>

\* on_mouse_motion reaching Player.event: the cursor goes to the next point the
\* player shoots at
MouseMotion ==
    /\ ~crash
    /\ tick < horizon
    /\ nclicks < Len(level.clicks)
    /\ InWindow(level.clickwindows, nclicks + 1, tick)
    /\ mouse /= level.clicks[nclicks + 1]
    /\ mouse' = level.clicks[nclicks + 1]
    /\ player' = player_mouse_motion(player, level.clicks[nclicks + 1])
    /\ UNCHANGED <<level, enemies, agents, keys, dt, status, crash, tick, nkeys, horizon, obs,
                   nclicks>>
    /\ UNCHANGED pathVars
    /\ UNCHANGED <<callVars, gameVars, editorVars>>

\* on_mouse_press with the left button reaching Player.event
MouseDown ==
    /\ ~crash
    /\ tick < horizon
    /\ nclicks < Len(level.clicks)
    /\ InWindow(level.clickwindows, nclicks + 1, tick)
    /\ mouse = level.clicks[nclicks + 1]
    /\ player' = player_mouse_down(player, mouse)
    /\ nclicks' = nclicks + 1
    /\ UNCHANGED <<level, enemies, agents, keys, dt, status, crash, tick, nkeys, horizon, obs,
                   mouse>>
    /\ UNCHANGED pathVars
    /\ UNCHANGED <<callVars, gameVars, editorVars>>

\* Level.update
LevelUpdate ==
    /\ ~crash
    /\ tick < horizon
    /\ \E phys \in {PhysicsStep(player, enemies, map)} :
       \E ags \in {RemoveDead(agents, phys.enemies, 1)} :
       \E st \in {UpdateAgents(ags, 1,
                               [player |-> phys.player, enemies |-> phys.enemies,
                                obs |-> obs, crash |-> FALSE],
                               keys, dt, map, tick + 1)} :
          /\ player' = st.player
          /\ enemies' = st.enemies
          /\ obs' = st.obs
          /\ crash' = st.crash
          /\ agents' = ags
          /\ status' = IF st.crash THEN status ELSE NextStatus(status, ags, st.player)
    /\ tick' = tick + 1
    /\ UNCHANGED <<level, keys, dt, nkeys, horizon, mouse, nclicks>>
    /\ UNCHANGED pathVars
    /\ UNCHANGED <<callVars, gameVars, editorVars>>

Next == KeyPress \/ KeyRelease \/ MouseMotion \/ MouseDown \/ LevelUpdate

Spec == Init /\ [][Next]_vars

----------------------------------------------------------------------------
(* Claims about Enemy.update, read on the locals obs keeps of each enemy's  *)
(* last update and on the enemy's state after it.                           *)

InRadius(o) == o.player_distance < chase_radius * chase_radius

\* the map has no wall tile
NoWalls == WallBoxes(map) = {}

\* any two points of the map are nearer than the chase radius
RadiusCoversLevel ==
    (Len(map) * Len(map) + Len(map[1]) * Len(map[1])) * node_size * node_size
        < chase_radius * chase_radius

\* no key was pressed: the player stands where the level file put it
PlayerNeverMoved == nkeys = 0 /\ player.pos = level.player

\* the setting of C7: a first update with the enemy at (0,0), the living player at
\* (500,0) and nothing between them
NewEnemyFarFromPlayer(o) ==
    /\ o.ran /\ o.previous_state = "IDLE"
    /\ o.pos = <<0, 0>> /\ o.player_pos = <<500, 0>>
    /\ ~o.player_dead /\ ~o.hit

\* C1: after an update with the player alive and either inside the chase radius or
\* the enemy chasing before, the state is CHASE when the raycast to the player
\* was clear and PATROL when it was obstructed.
C1_StateFollowsRaycast ==
    \A i \in DOMAIN obs :
        (obs[i].ran /\ ~obs[i].player_dead
            /\ (InRadius(obs[i]) \/ obs[i].previous_state = "CHASE"))
        => enemies[i].state = IF obs[i].hit THEN "PATROL" ELSE "CHASE"

\* an enemy that chased the player out of the radius lost sight of it and patrols
C1_Witness ==
    \E i \in DOMAIN obs :
        /\ obs[i].ran /\ ~obs[i].player_dead /\ ~InRadius(obs[i])
        /\ obs[i].previous_state = "CHASE" /\ obs[i].hit
        /\ enemies[i].state = "PATROL"

\* C2: after an update with the player alive and outside the chase radius, an
\* enemy that was IDLE or PATROL before is in PATROL, whatever the raycast would say.
C2_Hysteresis ==
    \A i \in DOMAIN obs :
        (obs[i].ran /\ ~obs[i].player_dead /\ ~InRadius(obs[i])
            /\ obs[i].previous_state \in {"IDLE", "PATROL"})
        => enemies[i].state = "PATROL"

\* a patrolling enemy with a clear view of a player outside the radius keeps patrolling
C2_Witness ==
    \E i \in DOMAIN obs :
        /\ obs[i].ran /\ ~obs[i].player_dead /\ ~InRadius(obs[i])
        /\ obs[i].previous_state = "PATROL" /\ ~obs[i].hit
        /\ enemies[i].state = "PATROL"

\* C3: after an update in which the player was dead the state is PATROL.
C3_DeadPlayerMeansPatrol ==
    \A i \in DOMAIN obs : (obs[i].ran /\ obs[i].player_dead) => enemies[i].state = "PATROL"

\* an enemy that was chasing when the player died patrols
C3_Witness ==
    \E i \in DOMAIN obs :
        /\ obs[i].ran /\ obs[i].player_dead /\ obs[i].previous_state = "CHASE"
        /\ enemies[i].state = "PATROL"

\* C7 as claimed: after the first update of an enemy at (0,0) with the living player
\* at (500,0) and no obstruction, the state is CHASE.
C7_FarPlayerIsChased ==
    \A i \in DOMAIN obs : NewEnemyFarFromPlayer(obs[i]) => enemies[i].state = "CHASE"

\* C7 as amended: after the first update of an enemy at (0,0) with the living player
\* at (500,0) and no obstruction, the state is PATROL.
C7_FarPlayerIsNotChased ==
    \A i \in DOMAIN obs : NewEnemyFarFromPlayer(obs[i]) => enemies[i].state = "PATROL"

C7_Witness ==
    \E i \in DOMAIN obs : NewEnemyFarFromPlayer(obs[i]) /\ enemies[i].state = "PATROL"

\* C8 as claimed: an enemy is IDLE until its first update and PATROL after it, in
\* every situation.
C8_FirstUpdateGivesPatrol ==
    \A i \in DOMAIN obs :
        /\ ~obs[i].ran => enemies[i].state = "IDLE"
        /\ (obs[i].ran /\ obs[i].previous_state = "IDLE") => enemies[i].state = "PATROL"

\* C8 as amended: an enemy is IDLE until its first update; after it the state is
\* CHASE when the player was alive, inside the chase radius and in clear view, and
\* PATROL in every other situation.
C8_FirstUpdateLeavesIdle ==
    \A i \in DOMAIN obs :
        /\ ~obs[i].ran => enemies[i].state = "IDLE"
        /\ (obs[i].ran /\ obs[i].previous_state = "IDLE")
            => enemies[i].state =
                 IF ~obs[i].player_dead /\ InRadius(obs[i]) /\ ~obs[i].hit
                 THEN "CHASE" ELSE "PATROL"

\* a first update that leaves the enemy chasing
C8_Witness ==
    \E i \in DOMAIN obs :
        obs[i].ran /\ obs[i].previous_state = "IDLE" /\ enemies[i].state = "CHASE"

\* C9 as claimed, for the state after each tick: in a level without walls that the
\* chase radius covers, with a living player that never moved, every enemy
\* updated is in PATROL.
C9_EnclosedEnemyPatrols ==
    (NoWalls /\ RadiusCoversLevel /\ PlayerNeverMoved /\ ~player.dead)
    => \A i \in DOMAIN obs : obs[i].ran => enemies[i].state = "PATROL"

\* C9 as amended: in a level without walls that the chase radius covers, with a
\* living player that never moved, an enemy is IDLE before its first update and
\* in CHASE after every update, and its patrol target stays the first waypoint.
C9_EnclosedEnemyChases ==
    (NoWalls /\ RadiusCoversLevel /\ PlayerNeverMoved /\ ~player.dead)
    => \A i \in DOMAIN obs :
          /\ enemies[i].state = IF obs[i].ran THEN "CHASE" ELSE "IDLE"
          /\ enemies[i].wp_index = 1
          /\ enemies[i].patrol_target = enemies[i].waypoints[1]

\* ten and more ticks in such a level: the enemy chases and has fired
C9_Witness ==
    /\ NoWalls /\ RadiusCoversLevel /\ PlayerNeverMoved /\ ~player.dead
    /\ tick >= attack_frequency
    /\ \E i \in DOMAIN obs :
          obs[i].ran /\ enemies[i].state = "CHASE" /\ enemies[i].bullets /= <<>>

----------------------------------------------------------------------------
(* Claims about the patrol round, the bullets and the dead enemies *)

\* the k-th patrol target (from 1) of a round that starts again at the first
\* waypoint after the last
CyclicTarget(ws, k) == ws[((k - 1) % Len(ws)) + 1]

\* the k-th patrol target of a round that walks the list forth and back
BackAndForthIndex(n, m) == IF m < n THEN m + 1 ELSE 2 * n - 1 - m

BackAndForthTarget(ws, k) ==
    ws[BackAndForthIndex(Len(ws), (k - 1) % (IF Len(ws) <= 2 THEN Len(ws) ELSE 2 * Len(ws) - 2))]

\* C13 as claimed: the patrol targets an enemy takes are the waypoints w1, ..., wn
\* of the level file in their order and then w1 again, and so on.
C13_PatrolIsCyclic ==
    \A i \in DOMAIN enemies :
        enemies[i].patrol_target = CyclicTarget(level.waypoints[i], enemies[i].taken)

\* C13 as amended: the patrol targets an enemy takes are w1, ..., wn, then
\* wn-1, ..., w2 back in reverse order, then w1 again, and so on.
C13_PatrolGoesBackAndForth ==
    \A i \in DOMAIN enemies :
        enemies[i].patrol_target = BackAndForthTarget(level.waypoints[i], enemies[i].taken)

\* an enemy with three waypoints or more has walked them forth and back and has
\* the first as its target again
C13_Witness ==
    \E i \in DOMAIN enemies :
        /\ Len(level.waypoints[i]) >= 3
        /\ enemies[i].taken = 2 * Len(level.waypoints[i]) - 1
        /\ enemies[i].patrol_target = level.waypoints[i][1]

\* C17: a bullet that collided with a wall or a target is destroyed: update is
\* never called on it afterwards, and no list of bullets holds a destroyed bullet
\* once its owner was updated (the player in every frame, an enemy in the frames
\* it is updated in).
C17_DestroyedBulletsAreDropped ==
    /\ \A j \in 1..Len(player.bullets) :
          ~player.bullets[j].late /\ ~player.bullets[j].destroyed
    /\ \A i \in DOMAIN enemies : \A j \in 1..Len(enemies[i].bullets) :
          /\ ~enemies[i].bullets[j].late
          /\ (obs[i].ran /\ obs[i].frame = tick /\ ~obs[i].raised)
                => ~enemies[i].bullets[j].destroyed

\* bullets of the player have hit an enemy and bullets of an enemy the player,
\* and both have bullets in their lists after their updates
C17_Witness ==
    /\ tick >= 1
    /\ player.bullets /= <<>>
    /\ \E i \in DOMAIN enemies :
          /\ enemies[i].health < enemy_health
          /\ ~enemies[i].dead

\* bullets of an enemy have hit the player, the enemy was updated since and has
\* bullets in flight
C17_WitnessEnemy ==
    /\ player.health < player_health
    /\ \E i \in DOMAIN enemies :
          obs[i].ran /\ obs[i].frame = tick /\ enemies[i].bullets /= <<>>

\* C18: after every Level.update no dead enemy is left in the list of agents, and
\* Enemy.update was not called on a dead enemy.
C18_DeadEnemiesAreNotUpdated ==
    /\ \A k \in 1..Len(agents) : agents[k] /= 0 => ~enemies[agents[k]].dead
    /\ \A i \in DOMAIN obs : obs[i].ran => ~obs[i].enemy_dead

----------------------------------------------------------------------------
(* Claims about the way back to the patrol *)

\* the update found the player, chased until then, out of the radius and out of sight
LostSight(o) ==
    o.ran /\ o.previous_state = "CHASE" /\ ~o.player_dead /\ ~InRadius(o) /\ o.hit

\* the update started a return path
StartedReturn(i) == enemies[i].plans = obs[i].plans + 1

\* C19: an enemy that chased and finds the player out of the radius and out of
\* sight starts a return path exactly when the raycast to its patrol target is
\* obstructed too; the path is calculate_path(closest_point(position),
\* closest_point(patrol target)) and the return target its first point.
C19_ReturnPathIffTargetHidden ==
    \A i \in DOMAIN obs :
        LostSight(obs[i]) =>
            /\ StartedReturn(i) <=> raycast(map, obs[i].pos, obs[i].patrol_target)
            /\ StartedReturn(i) =>
                  /\ [ok |-> TRUE, path |-> enemies[i].planned.path]
                        = calculate_path(map, closest_point(map, obs[i].pos),
                                         closest_point(map, obs[i].patrol_target))
                  /\ enemies[i].planned.target = enemies[i].planned.path[1]

\* the update ran the Patrol branch
BehavedAsPatrol(i) ==
    /\ obs[i].ran /\ ~obs[i].raised
    /\ enemies[i].state = "PATROL"
    /\ ~(obs[i].previous_state = "IDLE" /\ ~obs[i].player_dead /\ ~InRadius(obs[i]))

\* the return path was active when the Patrol branch ran
ReturnActive(i) == obs[i].return_active \/ StartedReturn(i)

\* the update turned the enemy to the target and moved it one step that way
SteeredToward(i, target) ==
    IF target = obs[i].pos THEN enemies[i].pos = obs[i].pos
    ELSE /\ enemies[i].angle
              = normalize(<<target[1] - obs[i].pos[1], target[2] - obs[i].pos[2]>>)
         /\ enemies[i].pos = Advance(obs[i].pos, enemies[i].angle, enemy_speed * dt)

\* what C20 says of an update on the return path: the patrol target and the
\* waypoint iterator stay, the enemy is steered toward the return target, and the
\* path is dropped only at its last point
OnReturnPath(i) ==
    /\ enemies[i].patrol_target = obs[i].patrol_target
    /\ enemies[i].taken = obs[i].taken
    /\ IF enemies[i].return_path.active
       THEN SteeredToward(i, enemies[i].return_target)
       ELSE /\ distance_sqr(obs[i].pos, enemies[i].return_target) < epsilon
            /\ enemies[i].pos = obs[i].pos

\* the update is the first Patrol update after the one that dropped the return path
FirstAfterReturn(i) == BehavedAsPatrol(i) /\ ~ReturnActive(i) /\ obs[i].after_drop

C20_WitnessAside ==
    \E i \in DOMAIN obs :
        /\ FirstAfterReturn(i)
        /\ enemies[i].plans >= 1
        /\ enemies[i].taken = obs[i].taken
        /\ enemies[i].pos /= obs[i].pos

\* C21: a return path is abandoned when the enemy goes over to Chase: a Patrol
\* update after that does not follow the return path the chase interrupted.
C21_ChaseAbandonsReturnPath ==
    \A i \in DOMAIN obs :
        (BehavedAsPatrol(i) /\ obs[i].return_active /\ ~StartedReturn(i)) => ~obs[i].old_path

----------------------------------------------------------------------------
(* Claims about the attack and about the sub-targets of the patrol *)

\* the update made a bullet
Fired(i) == obs[i].ran /\ enemies[i].fired = obs[i].fired + 1

\* C22: an enemy makes a bullet only in an update in which it is in Chase and
\* within the attack radius of the player (here: even after its approach).
C22_FiresOnlyInAttackRadius ==
    \A i \in DOMAIN obs :
        Fired(i) =>
            /\ enemies[i].state = "CHASE"
            /\ distance_sqr(enemies[i].pos, obs[i].player_pos) <= attack_radius * attack_radius

\* C23: after every update 0 <= current_attack < attack_frequency; a Chase
\* update adds one to it, any other leaves it; the bullet is made exactly in the
\* update in which it reaches attack_frequency, which sets it to 0; two
\* shots in a row of an enemy are attack_frequency Chase updates apart.
C23_AttackCadence ==
    \A i \in DOMAIN obs :
        /\ enemies[i].current_attack \in 0..(attack_frequency - 1)
        /\ (obs[i].ran /\ ~obs[i].raised) =>
              /\ IF enemies[i].state /= "CHASE"
                 THEN enemies[i].current_attack = obs[i].current_attack /\ ~Fired(i)
                 ELSE IF obs[i].current_attack + 1 = attack_frequency
                 THEN enemies[i].current_attack = 0 /\ Fired(i)
                 ELSE enemies[i].current_attack = obs[i].current_attack + 1 /\ ~Fired(i)
              /\ (Fired(i) /\ obs[i].shot_at > 0) =>
                    enemies[i].chases - obs[i].shot_at = attack_frequency

\* an enemy shot for the second time, having been out of Chase in between
C23_Witness ==
    \E i \in DOMAIN obs :
        /\ Fired(i) /\ obs[i].shot_at > 0
        /\ ~obs[i].raised

\* the update ran patrol()
Patrolled(i) == BehavedAsPatrol(i) /\ ~ReturnActive(i)

\* the update ran return_to_patrol() and did not drop the path
FollowedReturn(i) == BehavedAsPatrol(i) /\ ReturnActive(i) /\ enemies[i].return_path.active

\* the return target the update started from
ReturnTargetBefore(i) ==
    IF StartedReturn(i) THEN enemies[i].planned.target ELSE obs[i].return_target

\* the update took the next point of the return path
NextReturnPoint(i) == enemies[i].return_target /= ReturnTargetBefore(i)
                        \/ Len(enemies[i].return_path.rest)
                             < (IF StartedReturn(i) THEN Len(enemies[i].planned.path) - 1
                                ELSE Len(obs[i].return_rest))

\* C24: in Patrol the enemy takes the next waypoint, or the next point of the
\* return path, exactly when it is less than epsilon (10 units) from the current
\* one.
C24_AdvancesWithinEpsilon ==
    \A i \in DOMAIN obs :
        /\ Patrolled(i) =>
              ((enemies[i].taken = obs[i].taken + 1)
                 <=> distance_sqr(obs[i].pos, obs[i].patrol_target) < epsilon * epsilon)
        /\ FollowedReturn(i) =>
              (NextReturnPoint(i)
                 <=> distance_sqr(obs[i].pos, ReturnTargetBefore(i)) < epsilon * epsilon)

----------------------------------------------------------------------------
(* Claims about the dead *)

\* C25: once the player is dead it is updated no more: its position stays and
\* it makes no more bullets.
C25_DeadPlayerIsLeftAlone ==
    [][player.dead => /\ player'.pos = player.pos
                      /\ player'.ammo = player.ammo
                      /\ Len(player'.bullets) <= Len(player.bullets)]_vars

\* C26: the health of the player and of every enemy never grows, dead never
\* goes back to false, and the body and shape of an agent are removed from the
\* physics space at most once.
C26_DamageIsMonotone ==
    [][/\ player'.health <= player.health
       /\ player.dead => player'.dead
       /\ player'.removed <= 1
       /\ player'.removed >= player.removed
       /\ \A i \in DOMAIN enemies :
             /\ enemies'[i].health <= enemies[i].health
             /\ enemies[i].dead => enemies'[i].dead
             /\ enemies'[i].removed <= 1
             /\ enemies'[i].removed >= enemies[i].removed]_vars

\* an enemy was hit again after the hit that killed it
C26_Witness ==
    \E i \in DOMAIN enemies :
        enemies[i].dead /\ enemies[i].health < 0 /\ enemies[i].removed = 1

\* the player died of its hits
C26_WitnessPlayer == player.dead /\ player.health = 0 /\ player.removed = 1

\* C27: after every Level.update that leaves the player dead the status is
\* FAILED; the level of a dead player is never PASSED.
C27_DeadPlayerMeansFailed ==
    (tick > 0 /\ ~crash /\ player.dead) => status = "FAILED"

----------------------------------------------------------------------------
(* The level editor: the agent tool and the waypoint tool *)

MaxEditorClicks == 6

\* the viewport points the author clicks at: the first two lie in one
\* enemy's rectangle, the others far from them and from each other
EditorPoints == {<<100, 100>>, <<130, 100>>, <<300, 100>>, <<100, 300>>}

\* EditorViewport.GRID_SPACING
GRID_SPACING == 100

\* "(10, 10)": the sides of a waypoint's rectangle
WaypointRect == 10

\* mouse_over_rect(mouse, center, size) for a square of side size:
\* "dx < tsx/2 and dy < tsy/2"
mouse_over_rect(m, center, size) ==
    /\ 2 * Abs(center[1] - m[1]) < size
    /\ 2 * Abs(center[2] - m[2]) < size

\* list.remove(x) takes out the first element equal to x: its position
FirstEqual(s, x) == CHOOSE i \in 1..Len(s) : s[i] = x /\ \A j \in 1..(i - 1) : s[j] /= x

\* The enemy that "enemies.remove(en)" took out, for the waypoints authored:
\* enemies at one point cannot be told apart, so among them it is the one
\* whose waypoints list was taken out with it, and the first otherwise.
EnemyTakenOut(d, idx) ==
    LET w == FirstEqual(d.waypoints, d.waypoints[idx])
    IN  IF w <= Len(d.enemies) /\ d.enemies[w] = d.enemies[idx] THEN w
        ELSE FirstEqual(d.enemies, d.enemies[idx])

RECURSIVE RemoveEnemies(_, _, _)
\* "for idx, en in enumerate(enemies):
\*      if mouse_over_rect((px,py), en, (EditorViewport.GRID_SPACING*.75,)*2):
\*          enemies.remove(en); waypoints.remove(waypoints[idx])"
\* the loop walks the list it removes from by position (idx, from 1 here)
RemoveEnemies(d, p, idx) ==
    IF d.crash \/ idx > Len(d.enemies) THEN d
    ELSE IF ~mouse_over_rect(p, d.enemies[idx], (GRID_SPACING * 3) \div 4) THEN RemoveEnemies(d, p, idx + 1)
    ELSE IF idx > Len(d.waypoints) THEN [d EXCEPT !.crash = TRUE]
    ELSE RemoveEnemies(
            [d EXCEPT !.enemies = RemoveAt(@, FirstEqual(@, d.enemies[idx])),
                      !.authored = RemoveAt(@, EnemyTakenOut(d, idx)),
                      !.waypoints = RemoveAt(@, FirstEqual(@, d.waypoints[idx]))],
            p, idx + 1)

RECURSIVE SelectEnemy(_, _, _, _)
\* "for idx, en in enumerate(enemies): if mouse_over_rect(...):
\*      self.level_data['_active_enemy'] = idx+1": the last enemy under the cursor
SelectEnemy(ens, p, idx, active) ==
    IF idx > Len(ens) THEN active
    ELSE SelectEnemy(ens, p, idx + 1,
                     IF mouse_over_rect(p, ens[idx], (GRID_SPACING * 3) \div 4) THEN idx ELSE active)

\* "for _ in range(len(enemies) - len(waypoints)): waypoints.append([])"
PadWaypoints(wps, n) ==
    IF n > Len(wps) THEN wps \o [k \in 1..(n - Len(wps)) |-> <<>>] ELSE wps

RECURSIVE SelectedPoint(_, _, _)
\* "for point in waypoints[enemy_id-1]: if mouse_over_rect(...): selected = point; break"
SelectedPoint(points, p, i) ==
    IF i > Len(points) THEN None
    ELSE IF mouse_over_rect(p, points[i], WaypointRect) THEN points[i]
    ELSE SelectedPoint(points, p, i + 1)

\* AddWaypointTool.event(MOUSE_DOWN) with the left button and an enemy selected:
\* the point goes to, or leaves, the list at the selected index, and so do
\* the waypoints authored for the enemy at that index
WaypointToolLeft(d, p, ctrl) ==
    LET wps == PadWaypoints(d.waypoints, Len(d.enemies))
        k == d.active
    IN  IF k = 0 THEN d
        ELSE IF k > Len(wps) THEN [d EXCEPT !.waypoints = wps, !.crash = TRUE]
        ELSE IF ~ctrl
             THEN [d EXCEPT !.waypoints = [wps EXCEPT ![k] = Append(@, p)],
                            !.authored = IF k <= Len(@) THEN [@ EXCEPT ![k] = Append(@, p)]
                                         ELSE @]
        ELSE IF SelectedPoint(wps[k], p, 1) = None THEN [d EXCEPT !.waypoints = wps]
        ELSE [d EXCEPT !.waypoints =
                          [wps EXCEPT ![k] = RemoveAt(@, FirstEqual(@, SelectedPoint(wps[k], p, 1)))],
                       !.authored =
                          IF k <= Len(@) /\ SelectedPoint(wps[k], p, 1) \in Range(@[k])
                          THEN [@ EXCEPT ![k] = RemoveAt(@, FirstEqual(@, SelectedPoint(wps[k], p, 1)))]
                          ELSE @]

EditorData ==
    [player |-> level_data.player, enemies |-> level_data.enemies,
     waypoints |-> level_data.waypoints, active |-> level_data.active,
     authored |-> authored, crash |-> FALSE]

\* the editor's data after a press: level_data, the waypoints authored, and
\* whether an exception left the handler
EditorPress(d) ==
    /\ level_data' = [player |-> d.player, enemies |-> d.enemies,
                      waypoints |-> d.waypoints, active |-> d.active]
    /\ authored' = d.authored
    /\ crash' = d.crash
    /\ nclicks' = nclicks + 1
    /\ UNCHANGED <<level, player, enemies, agents, keys, dt, status, tick, nkeys, horizon,
                   obs, mouse>>
    /\ UNCHANGED <<pathVars, callVars, gameVars>>

\* Editor.load on a level without enemies
InitEditor ==
    /\ level_data = [player |-> <<100, 100>>, enemies |-> <<>>, waypoints |-> <<>>,
                     active |-> 0]
    /\ authored = <<>>
    /\ map = None
    /\ start = None /\ goal = None /\ search = None /\ ppc = "idle" /\ result = None
    /\ level = None /\ player = None /\ enemies = None /\ agents = None
    /\ keys = None /\ dt = 0 /\ status = None /\ crash = FALSE
    /\ tick = 0 /\ nkeys = 0 /\ horizon = 0
    /\ obs = None
    /\ mouse = None /\ nclicks = 0
    /\ call = None /\ ret = None
    /\ state = None /\ paused = None /\ nmenu = 0

\* on_mouse_press over the toolbar: "if x < EditorToolbar.WIDTH: return"
PressOverToolbar ==
    /\ ~crash /\ nclicks < MaxEditorClicks
    /\ EditorPress(EditorData)

\* on_mouse_press reaching AddAgentTool.event with the "Player" option
AgentToolPlayerPress ==
    /\ ~crash /\ nclicks < MaxEditorClicks
    /\ \E p \in EditorPoints : EditorPress([EditorData EXCEPT !.player = p])

\* on_mouse_press reaching AddAgentTool.event with the "Enemy" option
AgentToolEnemyPress ==
    /\ ~crash /\ nclicks < MaxEditorClicks
    /\ \E p \in EditorPoints, ctrl \in BOOLEAN :
          \E d \in {IF ctrl THEN RemoveEnemies(EditorData, p, 1)
                     ELSE [EditorData EXCEPT !.enemies = Append(@, p),
                                             !.waypoints = Append(@, <<>>),
                                             !.authored = Append(@, <<>>)]} :
             EditorPress(d)

\* on_mouse_press with the left button reaching AddWaypointTool.event
WaypointToolLeftPress ==
    /\ ~crash /\ nclicks < MaxEditorClicks
    /\ \E p \in EditorPoints, ctrl \in BOOLEAN :
          \E d \in {WaypointToolLeft(EditorData, p, ctrl)} : EditorPress(d)

\* on_mouse_press with the right button reaching AddWaypointTool.event
WaypointToolRightPress ==
    /\ ~crash /\ nclicks < MaxEditorClicks
    /\ \E p \in EditorPoints, ctrl \in BOOLEAN :
          \E d \in {IF ctrl THEN [EditorData EXCEPT !.active = 0]
                     ELSE [EditorData EXCEPT
                             !.active = SelectEnemy(EditorData.enemies, p, 1, @)]} :
             EditorPress(d)

NextEditor ==
    \/ PressOverToolbar
    \/ AgentToolPlayerPress
    \/ AgentToolEnemyPress
    \/ WaypointToolLeftPress
    \/ WaypointToolRightPress

SpecEditor == InitEditor /\ [][NextEditor]_vars

----------------------------------------------------------------------------
(* Claims about the editor's lists *)

\* the enemies with the waypoints wps gives them by index, as pairs
Paired(wps) == {<<level_data.enemies[i], wps[i]>> : i \in 1..Len(level_data.enemies)}

\* how many enemies wps pairs, by index, as in pr
Times(wps, pr) ==
    Cardinality({i \in 1..Len(level_data.enemies) : <<level_data.enemies[i], wps[i]>> = pr})

\* C28: after any sequence of add-enemy, remove-enemy, add-waypoint and
\* remove-waypoint presses, the enemies list and the waypoints list have the
\* same length, and every enemy left has, at its index, the waypoints that
\* were authored for it (enemies at one point, which cannot be told apart,
\* may have changed places).
C28_EnemiesPairedWithWaypoints ==
    /\ Len(level_data.enemies) = Len(level_data.waypoints)
    /\ \A pr \in Paired(level_data.waypoints) \cup Paired(authored) :
          Times(level_data.waypoints, pr) = Times(authored, pr)

\* the half of C28 about the lengths
C28_SameLength == Len(level_data.enemies) = Len(level_data.waypoints)

----------------------------------------------------------------------------
(* The game and its menus: Game.state, the P and Escape keys, the buttons   *)
(* of the menus, and the frames                                             *)

GameTicks == 4
MaxMenuEvents == 4

\* the player next to an enemy: it is shot at from the first frame on, and
\* may walk and shoot once itself
LevelSkirmish ==
    [name |-> "skirmish", map |-> TileMap(4, 1, {}),
     player |-> <<200, 50>>, enemies |-> << <<145, 50>> >>,
     waypoints |-> << << <<145, 50>> >> >>,
     keys |-> {"D"}, keyevents |-> 2, clicks |-> << <<145, 50>> >>,
     frames |-> GameTicks,
     keywindows |-> Anytime(2, GameTicks), clickwindows |-> Anytime(1, GameTicks)]

\* the level's agents, their health and their positions
Snapshot ==
    [agents  |-> agents,
     player  |-> [health |-> player.health, pos |-> player.pos],
     enemies |-> [i \in DOMAIN enemies |->
                    [health |-> enemies[i].health, pos |-> enemies[i].pos]]]

\* LevelManager.load: Level.reload of the level l
LoadLevel(l) ==
    /\ level' = l
    /\ map' = l.map
    /\ player' = NewPlayer(l.player)
    /\ enemies' = [i \in 1..Len(l.enemies) |->
                     NewEnemy(l.enemies[i], PatrolLoop(l.waypoints[i]))]
    /\ agents' = ReloadAgents(Len(l.enemies))
    /\ obs' = [i \in 1..Len(l.enemies) |-> NotRun]
    /\ keys' = {}
    /\ horizon' = l.frames
    /\ UNCHANGED <<start, goal, search, ppc, result>>
    /\ UNCHANGED <<dt, status, crash, tick, nkeys, mouse, nclicks>>
    /\ UNCHANGED <<callVars, editorVars>>

\* Game.__init__: the main menu, no level loaded
InitGame ==
    /\ state = "MAINMENU" /\ paused = None /\ nmenu = 0
    /\ level = None /\ map = None
    /\ start = None /\ goal = None /\ search = None /\ ppc = "idle" /\ result = None
    /\ player = None /\ enemies = <<>> /\ agents = <<>>
    /\ keys = {}
    /\ dt \in FrameTimes
    /\ status = "RUNNING"
    /\ crash = FALSE
    /\ tick = 0 /\ nkeys = 0 /\ horizon = 0
    /\ obs = <<>>
    /\ mouse = None /\ nclicks = 0
    /\ call = None /\ ret = None
    /\ level_data = None /\ authored = None

\* MainMenu.select_level by a click on a level's button: LevelManager.set
\* and Game.start
SelectLevel ==
    /\ state = "MAINMENU" /\ ~crash
    /\ nmenu < MaxMenuEvents
    /\ \E l \in {LevelSkirmish} : LoadLevel(l)
    /\ state' = "RUNNING"
    /\ paused' = None
    /\ nmenu' = nmenu + 1

\* on_key_press(key.P): Game.event
PressP ==
    /\ state \in {"MAINMENU", "RUNNING", "PAUSED"} /\ ~crash
    /\ nmenu < MaxMenuEvents
    /\ state' = CASE state = "RUNNING" -> "PAUSED"
                  [] state = "PAUSED" -> "RUNNING"
                  [] OTHER -> state
    /\ paused' = IF state = "RUNNING" THEN Snapshot ELSE None
    /\ nmenu' = nmenu + 1
    /\ UNCHANGED otherVars

\* on_key_press(key.ESCAPE): Game.pause in a running game, Game.start in a
\* paused one, sys.exit in the main menu; Game.event has nothing to add
PressEscape ==
    /\ state \in {"MAINMENU", "RUNNING", "PAUSED"} /\ ~crash
    /\ nmenu < MaxMenuEvents
    /\ nmenu' = nmenu + 1
    /\ \/ /\ state = "RUNNING"
          /\ state' = "PAUSED"
          /\ paused' = Snapshot
          /\ UNCHANGED otherVars
       \/ /\ state = "PAUSED"
          /\ LoadLevel(level)
          /\ state' = "RUNNING"
          /\ paused' = None
       \/ /\ state = "MAINMENU"
          /\ state' = "EXITED"
          /\ paused' = None
          /\ UNCHANGED otherVars

\* a click on a button of the pause menu
PauseMenuClick ==
    /\ state = "PAUSED" /\ ~crash
    /\ nmenu < MaxMenuEvents
    /\ nmenu' = nmenu + 1
    /\ paused' = None
    /\ \/ state' = "RUNNING" /\ UNCHANGED otherVars     \* PauseMenu.resume
       \/ state' = "RUNNING" /\ LoadLevel(level)      \* PauseMenu.restart
       \/ state' = "MAINMENU" /\ UNCHANGED otherVars    \* PauseMenu.mainmenu

\* on_update: Game.update calls LevelManager.update in a running game and
\* the menu's update, which does nothing, in a menu
GameUpdate ==
    \/ state = "RUNNING" /\ LevelUpdate
    \/ /\ state \in {"MAINMENU", "PAUSED"} /\ ~crash
       /\ nmenu < MaxMenuEvents
       /\ nmenu' = nmenu + 1
       /\ UNCHANGED <<state, paused>>
       /\ UNCHANGED otherVars

\* the key handler of the player of the level loaded, on the window in every
\* state of the game
GameKey ==
    /\ state \in {"MAINMENU", "RUNNING", "PAUSED"} /\ player /= None
    /\ (KeyPress \/ KeyRelease)

\* on_mouse_motion and on_mouse_press: Game.event hands them to the level of
\* a running game
GameMouse == state = "RUNNING" /\ (MouseMotion \/ MouseDown)

NextGame ==
    \/ SelectLevel
    \/ PressP
    \/ PressEscape
    \/ PauseMenuClick
    \/ GameUpdate
    \/ GameKey
    \/ GameMouse

SpecGame == InitGame /\ [][NextGame]_vars

----------------------------------------------------------------------------
(* Claims about the pause *)

\* the step resumes a paused level with the P key or with Escape
ResumedByKey == state = "PAUSED" /\ state' = "RUNNING" /\ (PressP \/ PressEscape)

\* the step resumes a paused level with the P key
ResumedByP == state = "PAUSED" /\ state' = "RUNNING" /\ PressP

\* C29: while the game is PAUSED or in the MAINMENU no frame calls
\* Level.update, and a level that was paused and is resumed, with the P key or
\* with Escape, has its agents, their health and their positions as they were
\* when it was paused.
C29_PauseKeepsLevel ==
    [][/\ state \in {"PAUSED", "MAINMENU"} => tick' = tick
       /\ ResumedByKey => Snapshot' = paused]_vars

\* the part of C29 that holds: no Level.update in a menu, and the P key
\* resumes the level as it was
C29_PauseKeepsLevelResumedByP ==
    [][/\ state \in {"PAUSED", "MAINMENU"} => tick' = tick
       /\ ResumedByP => Snapshot' = paused]_vars

====
